---- MODULE Spec2Model ----
(***************************************************************************)
(* A model of the show playback engine of mpf (mpf/assets/show.py): the    *)
(* Show asset (loading, the token index, play) and RunningShow (the        *)
(* time-driven player).  Python objects live on a heap of dict and list    *)
(* nodes, so that copying and in-place mutation are distinguishable.       *)
(***************************************************************************)
EXTENDS Integers, Sequences, FiniteSets, TLC

(***************************************************************************)
(* Bounds of the model.                                                    *)
(***************************************************************************)
\* how many play() calls a behaviour makes
MaxPlays == 1
\* the clock stops advancing here
MaxTime == 2
\* play()/resume() are not called on a player that already has this many
\* pending timers
MaxTimers == 2

(***************************************************************************)
(* Python values.  A string is a sequence of atoms: "(" and ")" are atoms  *)
(* of their own, every other atom is a run of characters without           *)
(* parentheses.  Dicts and lists are heap nodes, referred to by address.   *)
(***************************************************************************)
Str(s) == [k |-> "str", v |-> s]
Num(n) == [k |-> "int", v |-> n]
Ref(a) == [k |-> "ref", v |-> a]
PyNone == [k |-> "none", v |-> 0]
\* literal (not yet allocated) containers of the input data
D(items) == [k |-> "dict", v |-> items]
L(items) == [k |-> "list", v |-> items]

S(atom) == Str(<<atom>>)
\* the placeholder string "(name)"
Tok(name) == Str(<<"(", name, ")">>)

IsStr(x) == x.k = "str"
IsInt(x) == x.k = "int"
IsRef(x) == x.k = "ref"

\* an operation's result: the new heap, a value, and the exception raised
Res(hp, val, err) == [hp |-> hp, val |-> val, err |-> err]

NoErr == "none"

(***************************************************************************)
(* Heap primitives: Python's subscript, item assignment and dict.pop.      *)
(***************************************************************************)
\* position of key x among a dict node's items, 0 when absent
KeyPos(items, x) ==
    IF \E i \in 1..Len(items) : items[i][1] = x
    THEN CHOOSE i \in 1..Len(items) :
            /\ items[i][1] = x
            /\ \A j \in 1..(i - 1) : items[j][1] # x
    ELSE 0

\* target[x]
GetItem(hp, target, x) ==
    IF ~IsRef(target) THEN Res(hp, PyNone, "TypeError")
    ELSE LET node == hp[target.v] IN
         IF node.k = "dict"
         THEN LET i == KeyPos(node.v, x) IN
              IF i = 0 THEN Res(hp, PyNone, "KeyError")
              ELSE Res(hp, node.v[i][2], NoErr)
         ELSE IF ~IsInt(x) THEN Res(hp, PyNone, "TypeError")
         ELSE LET n == Len(node.v)
                  i == IF x.v < 0 THEN x.v + n ELSE x.v
              IN IF i < 0 \/ i >= n THEN Res(hp, PyNone, "IndexError")
                 ELSE Res(hp, node.v[i + 1], NoErr)

\* target[x] = val
SetItem(hp, target, x, val) ==
    IF ~IsRef(target) THEN Res(hp, PyNone, "TypeError")
    ELSE LET node == hp[target.v] IN
         IF node.k = "dict"
         THEN LET i == KeyPos(node.v, x)
                  items == IF i = 0 THEN Append(node.v, <<x, val>>)
                           ELSE [node.v EXCEPT ![i] = <<x, val>>]
              IN Res([hp EXCEPT ![target.v].v = items], PyNone, NoErr)
         ELSE IF ~IsInt(x) THEN Res(hp, PyNone, "TypeError")
         ELSE LET n == Len(node.v)
                  i == IF x.v < 0 THEN x.v + n ELSE x.v
              IN IF i < 0 \/ i >= n THEN Res(hp, PyNone, "IndexError")
                 ELSE Res([hp EXCEPT ![target.v].v[i + 1] = val], PyNone, NoErr)

\* target.pop(x)
Pop(hp, target, x) ==
    IF ~IsRef(target) THEN Res(hp, PyNone, "AttributeError")
    ELSE LET node == hp[target.v] IN
         IF node.k = "dict"
         THEN LET i == KeyPos(node.v, x) IN
              IF i = 0 THEN Res(hp, PyNone, "KeyError")
              ELSE Res([hp EXCEPT ![target.v].v =
                            SubSeq(node.v, 1, i - 1) \o
                            SubSeq(node.v, i + 1, Len(node.v))],
                       node.v[i][2], NoErr)
         ELSE \* list.pop takes an integer index
              IF ~IsInt(x) THEN Res(hp, PyNone, "TypeError")
              ELSE LET n == Len(node.v)
                       i == IF x.v < 0 THEN x.v + n ELSE x.v
                   IN IF i < 0 \/ i >= n THEN Res(hp, PyNone, "IndexError")
                      ELSE Res([hp EXCEPT ![target.v].v =
                                    SubSeq(node.v, 1, i) \o
                                    SubSeq(node.v, i + 2, n)],
                               node.v[i + 1], NoErr)

\* a new node
New(hp, kind, items) ==
    Res(Append(hp, [k |-> kind, v |-> items]), Ref(Len(hp) + 1), NoErr)
\* a new node whose items are r's value
NewOf(r, kind) == New(r.hp, kind, r.val)

\* the same call on the heap r leaves, unless r raised
GetItemR(r, x) == IF r.err # NoErr THEN r ELSE GetItem(r.hp, r.val, x)
\* target[x] = r's value, unless r raised
SetItemR(r, target, x) ==
    IF r.err # NoErr THEN r ELSE SetItem(r.hp, target, x, r.val)
\* r's value appended to items, as a list element or under key
Added(r, items, kind, key) ==
    Res(r.hp, Append(items, IF kind = "dict" THEN <<key, r.val>> ELSE r.val),
        r.err)

\* the input data placed on the heap
RECURSIVE Alloc(_, _), AllocItems(_, _, _)
Alloc(hp, x) ==
    IF x.k \in {"dict", "list"}
    THEN NewOf(AllocItems(Res(hp, <<>>, NoErr), x.k, x.v), x.k)
    ELSE Res(hp, x, NoErr)
\* acc.val holds the items placed so far
AllocItems(acc, kind, items) ==
    IF items = <<>> THEN acc
    ELSE AllocItems(
             Added(Alloc(acc.hp, IF kind = "dict" THEN Head(items)[2]
                                 ELSE Head(items)),
                   acc.val, kind,
                   IF kind = "dict" THEN Head(items)[1] ELSE PyNone),
             kind, Tail(items))

\* the tree a value denotes (addresses resolved), for comparing contents
RECURSIVE Deref(_, _)
Deref(hp, x) ==
    IF ~IsRef(x) THEN x
    ELSE LET node == hp[x.v] IN
         IF node.k = "dict"
         THEN D([i \in 1..Len(node.v) |->
                    <<node.v[i][1], Deref(hp, node.v[i][2])>>])
         ELSE L([i \in 1..Len(node.v) |-> Deref(hp, node.v[i])])

(***************************************************************************)
(* Collaborators that are not part of show.py.                             *)
(***************************************************************************)
\* ConfigPlayer.show_players: the registered show sections
ShowPlayerList == << <<"leds">>, <<"sounds">> >>
ShowPlayers == {ShowPlayerList[i] : i \in 1..Len(ShowPlayerList)}

\* Util.string_to_secs for the time values used here: a number of seconds,
\* or the string "+n"
Digits == [d \in {"0", "1", "2", "3"} |->
             CASE d = "0" -> 0 [] d = "1" -> 1 [] d = "2" -> 2 [] d = "3" -> 3]
StringToSecs(t) ==
    IF IsInt(t) THEN t.v
    ELSE IF t.v[1] = "+" THEN Digits[t.v[2]] ELSE Digits[t.v[1]]

\* player.validate_show_config(device, settings): the validated entry for
\* one device, a dict {device: settings}
ValidateShowConfig(device, settings) == <<device, settings>>

(***************************************************************************)
(* Show: the token index.                                                   *)
(***************************************************************************)
\* self.token_finder.findall(data)[0] for the pattern (?<=\()(.*?)(?=\)):
\* the shortest text between the first "(" that has a ")" after it and that
\* ")".  <<>> of length 0 is a found, empty token; NoToken is no match.
NoToken == <<"<no match>">>
TokenFinder(s) ==
    LET starts == {i \in 2..(Len(s) + 1) :
                     /\ s[i - 1] = "("
                     /\ \E j \in i..Len(s) : s[j] = ")"}
    IN IF starts = {} THEN NoToken
       ELSE LET i == CHOOSE a \in starts : \A b \in starts : a <= b
                j == CHOOSE a \in i..Len(s) :
                        /\ s[a] = ")"
                        /\ \A b \in i..(a - 1) : s[b] # ")"
            IN SubSeq(s, i, j - 1)

\* dict.get(token, []) + [path], for token_keys and token_values
AddPath(index, token, path) ==
    IF token \in DOMAIN index
    THEN [index EXCEPT ![token] = Append(@, path)]
    ELSE [t \in DOMAIN index \cup {token} |->
            IF t = token THEN <<path>> ELSE index[t]]

\* Show._add_token
AddToken(sh, token, path, token_type) ==
    LET s1 == [sh EXCEPT !.tokens = @ \cup {token}]
    IN IF token_type = "key"
       THEN [s1 EXCEPT !.token_keys = AddPath(@, token, path)]
       ELSE IF token_type = "value"
       THEN [s1 EXCEPT !.token_values = AddPath(@, token, path)]
       ELSE s1

\* Show._check_token: findall raises TypeError on anything but a string
CheckToken(sh, path, data, token_type) ==
    IF ~IsStr(data) THEN sh
    ELSE LET token == TokenFinder(data.v)
         IN IF token = NoToken THEN sh
            ELSE AddToken(sh, token, path, token_type)

\* Show._walk_show.  list_index is NoIndex for Python's None.
NoIndex == -1
RECURSIVE WalkShow(_, _, _, _, _), WalkDict(_, _, _, _), WalkList(_, _, _, _, _)
WalkShow(hp, sh, data, path, list_index) ==
    IF IsRef(data) /\ hp[data.v].k = "dict"
    THEN WalkDict(hp, sh, hp[data.v].v, path)
    ELSE IF IsRef(data) /\ hp[data.v].k = "list"
    THEN WalkList(hp, sh, hp[data.v].v, path, list_index)
    ELSE CheckToken(sh, path, data, "value")
WalkDict(hp, sh, items, path) ==
    IF items = <<>> THEN sh
    ELSE WalkDict(hp,
                  WalkShow(hp, CheckToken(sh, path, Head(items)[1], "key"),
                           Head(items)[2], Append(path, Head(items)[1]),
                           NoIndex),
                  Tail(items), path)
WalkList(hp, sh, items, path, list_index) ==
    IF items = <<>> THEN sh
    ELSE LET li == IF list_index = NoIndex THEN 0 ELSE list_index + 1
         IN WalkList(hp,
                     WalkShow(hp, CheckToken(sh, path, Head(items), "key"),
                              Head(items), Append(path, Num(li)), li),
                     Tail(items), path, li)

\* Show._get_tokens
GetTokens(hp, sh) == WalkShow(hp, sh, sh.show_steps, <<>>, NoIndex)

(***************************************************************************)
(* Show.do_load_show                                                        *)
(***************************************************************************)
TimeKey == S("time")

\* list.append(r's value) on the list at address a
ListAppendR(r, a) == [r.hp EXCEPT ![a].v = Append(@, r.val)]

\* lines 138-151: the validated section {device: settings, ...} is built in
\* the dict target; a value that is not a dict stands for {value: {}}
RECURSIVE ValidateDevices(_, _, _)
ValidateDevices(hp, target, devices) ==
    IF devices = <<>> THEN Res(hp, target, NoErr)
    ELSE ValidateDevices(
             SetItemR(Alloc(hp, ValidateShowConfig(Head(devices)[1],
                                                   Head(devices)[2])[2]),
                      target,
                      ValidateShowConfig(Head(devices)[1],
                                         Head(devices)[2])[1]).hp,
             target, Tail(devices))
ValidateInto(r, devices) == ValidateDevices(r.hp, r.val, devices)
ValidateSection(hp, value) ==
    ValidateInto(New(hp, "dict", <<>>),
                 IF value.k = "dict" THEN value.v
                 ELSE << <<value, D(<<>>)>> >>)

\* lines 132-155: the loop over the step's items, filling the dict actions
RECURSIVE LoadActions(_, _, _)
LoadActions(hp, actions, items) ==
    IF items = <<>> THEN Res(hp, actions, NoErr)
    ELSE IF IsStr(Head(items)[1]) /\ Head(items)[1].v \in ShowPlayers
    THEN LoadActions(SetItemR(ValidateSection(hp, Head(items)[2]), actions,
                              Head(items)[1]).hp,
                     actions, Tail(items))
    ELSE IF Head(items)[1] # TimeKey
    THEN Res(hp, actions, "ValueError")
    ELSE LoadActions(hp, actions, Tail(items))
LoadActionsInto(r, items) == LoadActions(r.hp, r.val, items)

\* lines 96-100 if every step without a time entry got the time 0
WithTimeZero(step, step_num) ==
    IF KeyPos(step, TimeKey) = 0 THEN Append(step, <<TimeKey, Num(0)>>)
    ELSE step

\* lines 96-100: the step with its default time entry
WithTime(step, step_num) ==
    IF KeyPos(step, TimeKey) = 0
    THEN Append(step, <<TimeKey, IF step_num # 0 THEN Str(<<"+", "1">>)
                                 ELSE Num(0)>>)
    ELSE step
TimeOf(step) == step[KeyPos(step, TimeKey)][2]
\* line 111
IsRelative(time) == IsStr(time) /\ time.v[1] = "+"

\* The loader's state acc: the heap, the list show_steps, the running total,
\* and how the load has ended so far ("run": still going, "false": returned
\* False, or the exception raised).

\* lines 106-107: a first step later than 0 gets an empty step before it
FirstStepAtZero(acc, step_num, step_time) ==
    IF step_num = 0 /\ step_time > 0
    THEN [acc EXCEPT !.hp = ListAppendR(
                        New(acc.hp, "dict", << <<TimeKey, Num(0)>> >>),
                        acc.show_steps.v)]
    ELSE acc

\* line 157 (and the exception of lines 154-155): actions is appended
StoreStep(acc, r, t) ==
    IF r.err # NoErr
    THEN [acc EXCEPT !.hp = r.hp, !.status = r.err, !.total_step_time = @ + t]
    ELSE [acc EXCEPT !.hp = ListAppendR(r, acc.show_steps.v),
                     !.total_step_time = @ + t]

\* lines 111-157 for a step whose actions['time'] is t
LoadStepTimed(acc, step, t) ==
    StoreStep(acc,
              LoadActionsInto(New(acc.hp, "dict", << <<TimeKey, Num(t)>> >>),
                              step),
              t)

\* lines 109-129 if line 127 stored the absolute time as it is
LoadStepAtAbsolute(acc, step, time) ==
    IF IsRelative(time) THEN LoadStepTimed(acc, step, StringToSecs(time))
    ELSE IF StringToSecs(time) < acc.total_step_time
    THEN [acc EXCEPT !.status = "false"]
    ELSE LoadStepTimed(acc, step, StringToSecs(time))

\* lines 109-129
LoadStepAt(acc, step, time) ==
    IF IsRelative(time) THEN LoadStepTimed(acc, step, StringToSecs(time))
    ELSE IF StringToSecs(time) < acc.total_step_time
    THEN [acc EXCEPT !.status = "false"]
    ELSE LoadStepTimed(acc, step, StringToSecs(time) - acc.total_step_time)

\* lines 82-157: one pass of the loop over the steps
LoadStepFrom(acc, step_num, step) ==
    LoadStepAt(FirstStepAtZero(acc, step_num, StringToSecs(TimeOf(step))),
               step, TimeOf(step))
LoadStep(acc, step_num, step0) ==
    \* a step that is not a dict has no item assignment
    IF step0.k # "dict" THEN [acc EXCEPT !.status = "TypeError"]
    ELSE LoadStepFrom(acc, step_num, WithTime(step0.v, step_num))

RECURSIVE LoadSteps(_, _, _)
LoadSteps(acc, step_num, data) ==
    IF data = <<>> \/ acc.status # "run" THEN acc
    ELSE LoadSteps(LoadStep(acc, step_num, Head(data)), step_num + 1,
                   Tail(data))

\* lines 159-163
FinishLoad(acc, sh) ==
    IF acc.status # "run"
    THEN [hp |-> acc.hp, sh |-> sh, status |-> acc.status]
    ELSE [hp |-> acc.hp,
          sh |-> GetTokens(acc.hp, [sh EXCEPT !.total_steps =
                                       Len(acc.hp[sh.show_steps.v].v)]),
          status |-> "ok"]

\* lines 74-163, with self.show_steps the new list r
LoadInto(r, sh, data) ==
    IF data.k \notin {"dict", "list"}
    THEN [hp |-> r.hp, sh |-> [sh EXCEPT !.show_steps = r.val],
          status |-> "ValueError"]
    ELSE FinishLoad(
             LoadSteps([hp |-> r.hp, show_steps |-> r.val,
                        total_step_time |-> 0, status |-> "run"],
                       0,
                       \* list(a dict) is the list of its keys
                       IF data.k = "dict"
                       THEN [i \in 1..Len(data.v) |-> data.v[i][1]]
                       ELSE data.v),
             [sh EXCEPT !.show_steps = r.val])

\* Show.do_load_show(data): the heap and the Show afterwards, and how the
\* call ended ("ok", "false" for the early return, or the exception)
DoLoadShow(hp, sh, data) == LoadInto(New(hp, "list", <<>>), sh, data)

\* int(__show_version__); only whether a file's version equals it matters
SupportedShowVersion == 3

\* Show.do_load() for a show file with this version and these contents:
\* lines 64-72 and load_show_from_disk (lines 382-392), then lines 74-163.
\* r is the new list of line 68.
DoLoadFile(r, sh, version, contents) ==
    IF version # SupportedShowVersion
    THEN [hp |-> r.hp, sh |-> [sh EXCEPT !.show_steps = r.val],
          status |-> "ValueError"]
    ELSE LoadInto(r, sh, contents)
DoLoad(hp, sh, version, contents) ==
    DoLoadFile(New(hp, "list", <<>>), sh, version, contents)

\* total_steps before any load (None)
NoSteps == -1

\* lines 33-48: the Show before any data is loaded
NewShow ==
    [tokens |-> {}, token_values |-> << >>, token_keys |-> << >>,
     running |-> {}, total_steps |-> NoSteps, autoplay_settings |-> << >>,
     show_steps |-> PyNone, loaded |-> FALSE]

\* lines 50-52
MarkLoaded(r) ==
    IF r.status \in {"ok", "false"} THEN [r EXCEPT !.sh.loaded = TRUE] ELSE r

\* line 50: "if data" is false for None, 0 and anything empty
Falsy(data) ==
    \/ data = PyNone
    \/ data = Num(0)
    \/ data.k \in {"dict", "list", "str"} /\ data.v = <<>>

\* Show.__init__(machine, name, data=data)
ShowInit(data) ==
    IF ~Falsy(data)
    THEN MarkLoaded(DoLoadShow(<<>>, NewShow, data))
    ELSE [hp |-> <<>>, sh |-> NewShow, status |-> "ok"]

(***************************************************************************)
(* Show.get_show_steps: a copy in which every dict and list is a new node. *)
(***************************************************************************)
\* the alternative to copying: handing out the Show's own step data
SharedShowSteps(hp, data) == Res(hp, data, NoErr)

RECURSIVE GetShowSteps(_, _), CopyItems(_, _, _)
GetShowSteps(hp, data) ==
    IF IsRef(data)
    THEN NewOf(CopyItems(Res(hp, <<>>, NoErr), hp[data.v].k, hp[data.v].v),
               hp[data.v].k)
    ELSE Res(hp, data, NoErr)
\* acc.val holds the items copied so far
CopyItems(acc, kind, items) ==
    IF items = <<>> THEN acc
    ELSE CopyItems(
             Added(GetShowSteps(acc.hp, IF kind = "dict" THEN Head(items)[2]
                                        ELSE Head(items)),
                   acc.val, kind,
                   IF kind = "dict" THEN Head(items)[1] ELSE PyNone),
             kind, Tail(items))

(***************************************************************************)
(* The machine state the operations act on, as one record:                 *)
(*   now   machine.clock.get_time()                                        *)
(*   hp    the heap                                                        *)
(*   sh    the Show                                                        *)
(*   pl    the RunningShow instances, by number                            *)
(*   tm    per instance, the due times of its pending _run_next_step       *)
(*         events in the clock                                             *)
(*   ev    what the operation under way has done so far: the call and  *)
(*         its arguments, the step run ("step") with the loop count it     *)
(*         found ("loops"), show_play_callback ("play"), a handler's call  *)
(*         of caller.stop() ("call"), show.running.remove ("remove"),      *)
(*         clock calls ("schedule", "unschedule"), player.clear ("clear"), *)
(*         the completion callback ("callback"), the instance made with    *)
(*         its sync_ms ("created")                                         *)
(*   err   the exception the operation under way has raised                *)
(*   hist  per instance, how often its callback fired, its outputs were    *)
(*         cleared and it was removed from show.running                    *)
(***************************************************************************)
Ev(k, p, s, n) == [k |-> k, p |-> p, s |-> s, n |-> n]
Emit(st, e) == [st EXCEPT !.ev = Append(@, e)]
Raise(st, e) == [st EXCEPT !.err = e]

\* machine.clock.unschedule(self._run_next_step, True): every pending event
\* of the callback is dropped
Unschedule(st, p) ==
    Emit([st EXCEPT !.tm[p] = <<>>], Ev("unschedule", p, <<>>, 0))

\* the pending events are kept ordered by due time
RECURSIVE Insert(_, _)
Insert(due, t) ==
    IF due = <<>> THEN <<t>>
    ELSE IF t < Head(due) THEN <<t>> \o due
    ELSE <<Head(due)>> \o Insert(Tail(due), t)

\* machine.clock.schedule_once(self._run_next_step, delay)
ScheduleOnce(st, p, delay) ==
    Emit([st EXCEPT !.tm[p] = Insert(@, st.now + delay)],
         Ev("schedule", p, <<>>, delay))

(***************************************************************************)
(* RunningShow.stop                                                         *)
(***************************************************************************)
\* lines 503-505: player.clear(caller=self, priority=self.priority) for
\* every registered player
RECURSIVE ClearPlayers(_, _, _)
ClearPlayers(st, p, i) ==
    IF i > Len(ShowPlayerList) THEN st
    ELSE ClearPlayers(Emit(st, Ev("clear", p, ShowPlayerList[i],
                                  st.pl[p].priority)), p, i + 1)

\* lines 497-498
EffectiveHold(me, hold) == IF hold = "None" THEN me.hold ELSE hold = "True"

\* lines 497-505
ClearUnlessHold(st, p, hold) ==
    IF ~EffectiveHold(st.pl[p], hold)
    THEN [ClearPlayers(st, p, 1) EXCEPT !.hist[p].cleared = @ + 1]
    ELSE st

\* lines 507-508
FireCallback(st, p) ==
    IF st.pl[p].callback
    THEN Emit([st EXCEPT !.hist[p].callbacks = @ + 1],
              Ev("callback", p, <<>>, 0))
    ELSE st

\* the body of stop() if the callback were fired before the outputs are
\* cleared
StopBodyCallbackFirst(st, p, hold) ==
    IF p \notin st.sh.running
    THEN Raise([st EXCEPT !.pl[p].stopped = TRUE], "KeyError")
    ELSE ClearUnlessHold(
             FireCallback(
                 Unschedule(
                     Emit([st EXCEPT !.pl[p].stopped = TRUE,
                                     !.sh.running = @ \ {p},
                                     !.hist[p].removed = @ + 1],
                          Ev("remove", p, <<hold>>, 0)),
                     p),
                 p),
             p, hold)

\* lines 488-508, the body after the _stopped test; the removal is logged
\* with the hold argument of the call
StopBody(st, p, hold) ==
    IF p \notin st.sh.running
    THEN \* set.remove raises
         Raise([st EXCEPT !.pl[p].stopped = TRUE], "KeyError")
    ELSE FireCallback(
             ClearUnlessHold(
                 Unschedule(
                     Emit([st EXCEPT !.pl[p].stopped = TRUE,
                                     !.sh.running = @ \ {p},
                                     !.hist[p].removed = @ + 1],
                          Ev("remove", p, <<hold>>, 0)),
                     p),
                 p, hold),
             p)

\* stop() without the _stopped test of lines 485-486
StopAgain(st, p, hold) == StopBody(st, p, hold)

\* RunningShow.stop(hold)
Stop(st, p, hold) ==
    IF st.pl[p].stopped THEN st ELSE StopBody(st, p, hold)

(***************************************************************************)
(* RunningShow._run_next_step                                               *)
(***************************************************************************)
\* lines 558-559: the settings handed to the handler
Settings(hp, item_type, item_dict) ==
    IF GetItem(hp, item_dict, item_type).err = NoErr
    THEN GetItem(hp, item_dict, item_type).val
    ELSE item_dict

\* what the handler called as number k does inside show_play_callback: the
\* one called as number stopAt calls caller.stop() (0: no handler does)
HandlerRuns(st, p, k, stopAt) ==
    IF k = stopAt THEN Stop(Emit(st, Ev("call", p, <<"stop">>, k)), p, "None")
    ELSE st

\* lines 561-567
ShowPlayCallback(st, p, item_type, settings, k, stopAt) ==
    HandlerRuns(Emit(st, Ev("play", p, item_type.v,
                            IF IsRef(settings) THEN settings.v ELSE 0)),
                p, k, stopAt)

\* lines 551-567: the loop over the step's items; k counts the calls of
\* show_play_callback made so far
RECURSIVE Dispatch(_, _, _, _, _)
Dispatch(st, p, items, k, stopAt) ==
    IF items = <<>> \/ st.err # NoErr THEN st
    ELSE IF Head(items)[1] = TimeKey
    THEN Dispatch(st, p, Tail(items), k, stopAt)
    ELSE IF IsStr(Head(items)[1]) /\ Head(items)[1].v \in ShowPlayers
    THEN Dispatch(ShowPlayCallback(st, p, Head(items)[1],
                                   Settings(st.hp, Head(items)[1],
                                            Head(items)[2]),
                                   k + 1, stopAt),
                  p, Tail(items), k + 1, stopAt)
    ELSE Dispatch(st, p, Tail(items), k, stopAt)

\* lines 584-592, with t the result of looking up the next step's time
ScheduleAfter(st, p, t) ==
    IF t.err # NoErr THEN Raise(st, t.err)
    ELSE ScheduleOnce(
             [st EXCEPT !.pl[p].next_step_time =
                 st.now + (t.val.v * st.pl[p].speed[2]) \div st.pl[p].speed[1]],
             p, (t.val.v * st.pl[p].speed[2]) \div st.pl[p].speed[1])

\* the scheduling if manual_advance were not looked at
ScheduleNextAlways(st, p) ==
    ScheduleAfter(st, p,
        GetItemR(GetItem(st.hp, st.pl[p].show_steps,
                         Num(st.pl[p].next_step_index)),
                 TimeKey))

\* lines 583-592
ScheduleNext(st, p) ==
    IF st.pl[p].manual_advance THEN st
    ELSE ScheduleAfter(st, p,
             GetItemR(GetItem(st.hp, st.pl[p].show_steps,
                              Num(st.pl[p].next_step_index)),
                      TimeKey))

\* lines 570-581: the cursor and the loop count after a step that does not
\* end the show
MoveCursor(me) ==
    IF me.next_step_index = me.total_steps - 1
    THEN IF me.loops > 0 THEN [me EXCEPT !.loops = @ - 1]
         ELSE IF me.loops < 0 THEN [me EXCEPT !.next_step_index = 0]
         ELSE me
    ELSE [me EXCEPT !.next_step_index = @ + 1]

\* the end of a step if a negative loop count ended the show as 0 does
EndOfStepEndsOnNegative(st, p) ==
    IF st.err # NoErr THEN st
    ELSE IF /\ st.pl[p].next_step_index = st.pl[p].total_steps - 1
            /\ st.pl[p].loops <= 0
    THEN Stop(st, p, "None")
    ELSE ScheduleNext([st EXCEPT !.pl[p] = MoveCursor(@)], p)

\* the end of a step if no loop count ended the show
EndOfStepNeverEnds(st, p) ==
    IF st.err # NoErr THEN st
    ELSE ScheduleNext([st EXCEPT !.pl[p] = MoveCursor(@)], p)

\* lines 569-592
EndOfStep(st, p) ==
    IF st.err # NoErr THEN st
    ELSE IF /\ st.pl[p].next_step_index = st.pl[p].total_steps - 1
            /\ st.pl[p].loops = 0
    THEN Stop(st, p, "None")
    ELSE ScheduleNext([st EXCEPT !.pl[p] = MoveCursor(@)], p)

\* lines 551-592, with step the result of show_steps[next_step_index]
RunStep(st, p, step, stopAt) ==
    IF step.err # NoErr THEN Raise(st, step.err)
    ELSE EndOfStep(
             Dispatch(Emit(Emit(st, Ev("step", p, <<>>,
                                       st.pl[p].next_step_index)),
                           Ev("loops", p, <<>>, st.pl[p].loops)),
                      p, st.hp[step.val.v].v, 0, stopAt),
             p)

\* _run_next_step without the test of lines 548-549
RunNextStepUnguarded(st, p, stopAt) ==
    IF st.err # NoErr THEN st
    ELSE RunStep(st, p,
                 GetItem(st.hp, st.pl[p].show_steps,
                         Num(st.pl[p].next_step_index)),
                 stopAt)

\* RunningShow._run_next_step
RunNextStep(st, p, stopAt) ==
    IF st.err # NoErr THEN st
    ELSE IF st.now < st.pl[p].next_step_time THEN st
    ELSE RunStep(st, p,
                 GetItem(st.hp, st.pl[p].show_steps,
                         Num(st.pl[p].next_step_index)),
                 stopAt)

(***************************************************************************)
(* RunningShow._replace_tokens                                              *)
(***************************************************************************)
\* line 476: an x that was renamed is looked up under its new name
Renamed(x, keys_replaced) ==
    IF x \in DOMAIN keys_replaced THEN keys_replaced[x] ELSE x

\* target = target[x] along a path, from r's value (lines 464-465, 474-478)
RECURSIVE WalkPath(_, _, _)
WalkPath(r, path, keys_replaced) ==
    IF path = <<>> \/ r.err # NoErr THEN r
    ELSE WalkPath(GetItem(r.hp, r.val, Renamed(Head(path), keys_replaced)),
                  Tail(path), keys_replaced)

\* line 467: target[token_path[-1]] = replacement, with t the target
SetLast(t, token_path, replacement) ==
    IF t.err # NoErr THEN t
    ELSE SetItem(t.hp, t.val, token_path[Len(token_path)], replacement)

\* lines 462-467, for one token: every value location is overwritten
RECURSIVE ReplaceValues(_, _, _, _)
ReplaceValues(r, root, paths, replacement) ==
    IF paths = <<>> \/ r.err # NoErr THEN r
    ELSE IF Head(paths) = <<>> THEN Res(r.hp, PyNone, "IndexError")
    ELSE ReplaceValues(
             SetLast(WalkPath(Res(r.hp, root, NoErr),
                              SubSeq(Head(paths), 1, Len(Head(paths)) - 1),
                              << >>),
                     Head(paths), replacement),
             root, Tail(paths), replacement)

\* line 482; r is the result of the assignment of line 481
NoteRenamed(r, key_name, replacement, keys_replaced) ==
    IF r.err # NoErr THEN Res(r.hp, keys_replaced, r.err)
    ELSE Res(r.hp,
             [x \in DOMAIN keys_replaced \cup {key_name} |->
                 IF x = key_name THEN replacement ELSE keys_replaced[x]],
             NoErr)

\* line 481, the assignment, with popped the result of target.pop(key_name)
Reinsert(popped, target, key_name, replacement, keys_replaced) ==
    IF popped.err # NoErr THEN Res(popped.hp, keys_replaced, popped.err)
    ELSE NoteRenamed(SetItem(popped.hp, target, replacement, popped.val),
                     key_name, replacement, keys_replaced)

\* line 481, with t the target
RenameKey(t, key_name, replacement, keys_replaced) ==
    IF t.err # NoErr THEN Res(t.hp, keys_replaced, t.err)
    ELSE Reinsert(Pop(t.hp, t.val, key_name), t.val, key_name, replacement,
                  keys_replaced)

\* lines 472-482, for one token: every key location is renamed.  r's value
\* is keys_replaced.
RECURSIVE ReplaceKeys(_, _, _, _, _)
ReplaceKeys(r, root, paths, key_name, replacement) ==
    IF paths = <<>> \/ r.err # NoErr THEN r
    ELSE ReplaceKeys(
             RenameKey(WalkPath(Res(r.hp, root, NoErr), Head(paths), r.val),
                       key_name, replacement, r.val),
             root, Tail(paths), key_name, replacement)

\* _replace_tokens without lines 460-467
ValuesNotReplaced(r, sh, root, kwargs) == r

\* lines 460-467: the loop over the bindings, values
RECURSIVE ReplaceAllValues(_, _, _, _)
ReplaceAllValues(r, sh, root, kwargs) ==
    IF kwargs = <<>> \/ r.err # NoErr THEN r
    ELSE ReplaceAllValues(
             IF Head(kwargs)[1] \in DOMAIN sh.token_values
             THEN ReplaceValues(r, root, sh.token_values[Head(kwargs)[1]],
                                Head(kwargs)[2])
             ELSE r,
             sh, root, Tail(kwargs))

\* line 471
KeyName(token) == Str(<<"(">> \o token \o <<")">>)

\* lines 469-482: the loop over the bindings, keys
RECURSIVE ReplaceAllKeys(_, _, _, _)
ReplaceAllKeys(r, sh, root, kwargs) ==
    IF kwargs = <<>> \/ r.err # NoErr THEN r
    ELSE ReplaceAllKeys(
             IF Head(kwargs)[1] \in DOMAIN sh.token_keys
             THEN ReplaceKeys(r, root, sh.token_keys[Head(kwargs)[1]],
                              KeyName(Head(kwargs)[1]), Head(kwargs)[2])
             ELSE r,
             sh, root, Tail(kwargs))

\* line 458: keys_replaced = dict()
NoKeysReplaced(r) == [r EXCEPT !.val = << >>]

\* RunningShow._replace_tokens(**kwargs) on the steps at root
ReplaceTokens(hp, sh, root, kwargs) ==
    ReplaceAllKeys(
        NoKeysReplaced(ReplaceAllValues(Res(hp, PyNone, NoErr), sh, root,
                                        kwargs)),
        sh, root, kwargs)

(***************************************************************************)
(* RunningShow.__init__                                                     *)
(***************************************************************************)
\* lines 426-431
StartIndex(start_step, total_steps) ==
    IF start_step > 0 THEN start_step - 1
    ELSE IF start_step < 0 THEN total_steps + start_step
    ELSE 0

\* lines 402-434: the new instance's attributes
NewRunningShow(hp, show_steps, args) ==
    [show_steps |-> show_steps,
     priority |-> args.priority,
     hold |-> IF args.hold = "None" THEN Len(hp[show_steps.v].v) = 1
              ELSE args.hold = "True",
     speed |-> args.speed,
     callback |-> args.callback,
     loops |-> args.loops,
     manual_advance |-> args.manual_advance,
     show_tokens |-> args.show_tokens,
     stopped |-> FALSE,
     total_steps |-> Len(hp[show_steps.v].v),
     next_step_index |-> StartIndex(args.start_step, Len(hp[show_steps.v].v)),
     next_step_time |-> 0]

\* the first step if a start on a boundary of the interval did not wait
FirstStepOnBoundary(st, p, sync_ms, stopAt) ==
    IF sync_ms # 0
    THEN ScheduleOnce(
             [st EXCEPT !.pl[p].next_step_time =
                 st.now + (((sync_ms \div 1000) - (st.now % (sync_ms \div 1000)))
                           % (sync_ms \div 1000))],
             p, ((sync_ms \div 1000) - (st.now % (sync_ms \div 1000)))
                % (sync_ms \div 1000))
    ELSE RunNextStep([st EXCEPT !.pl[p].next_step_time = st.now], p, stopAt)

\* lines 442-452
FirstStep(st, p, sync_ms, stopAt) ==
    IF sync_ms # 0
    THEN ScheduleOnce(
             [st EXCEPT !.pl[p].next_step_time =
                 st.now + ((sync_ms \div 1000) - (st.now % (sync_ms \div 1000)))],
             p, (sync_ms \div 1000) - (st.now % (sync_ms \div 1000)))
    ELSE RunNextStep([st EXCEPT !.pl[p].next_step_time = st.now], p, stopAt)

\* lines 439-452, with r the result of lines 436-437.  An instance whose
\* constructor raises before show.running.add(self) is never seen by anyone.
Register(st, r, me, sync_ms, stopAt) ==
    IF r.err # NoErr THEN Raise(st, r.err)
    ELSE FirstStep(
             Emit([st EXCEPT !.hp = r.hp,
                             !.pl = Append(@, me),
                             !.tm = Append(@, <<>>),
                             !.hist = Append(@, [callbacks |-> 0, cleared |-> 0,
                                                 removed |-> 0]),
                             !.sh.running = @ \cup {Len(st.pl) + 1}],
                  Ev("created", Len(st.pl) + 1, <<>>, sync_ms)),
             Len(st.pl) + 1, sync_ms, stopAt)

\* RunningShow(machine, show, show_steps, ...): args are play()'s arguments
\* after play() has converted them
RunningShowInit(st, show_steps, args, stopAt) ==
    Register(st,
             IF args.show_tokens # <<>> /\ st.sh.tokens # {}
             THEN ReplaceTokens(st.hp, st.sh, show_steps, args.show_tokens)
             ELSE Res(st.hp, PyNone, NoErr),
             NewRunningShow(st.hp, show_steps, args),
             args.sync_ms, stopAt)

(***************************************************************************)
(* Show.play                                                                *)
(***************************************************************************)
Keys(kwargs) == {kwargs[i][1] : i \in 1..Len(kwargs)}

\* play() without the test of lines 327-330
AnyTokensAccepted(sh, show_tokens) == TRUE

\* lines 327-330
TokensAccepted(sh, show_tokens) == Keys(show_tokens) \subseteq sh.tokens

\* lines 351-354 and bool(hold) of line 365
PlayHold(total_steps, hold) ==
    IF hold # "None" THEN hold
    ELSE IF total_steps = 1 THEN "True"
    ELSE "False"
\* play() without lines 356-359
CallerLoops(total_steps, loops) == loops

\* lines 356-359
PlayLoops(total_steps, loops) == IF total_steps > 1 THEN loops ELSE 0

\* a copy whose instance was never created is garbage
Created(st, r) ==
    IF r.err # NoErr /\ Len(r.pl) = Len(st.pl) THEN Raise(st, r.err) ELSE r

\* lines 361-375, with copy the result of self.get_show_steps()
PlayCopy(st, copy, args, stopAt) ==
    Created(st, RunningShowInit([st EXCEPT !.hp = copy.hp], copy.val, args,
                                stopAt))

\* Show.play(...)
Play(st, args, stopAt) ==
    IF ~TokensAccepted(st.sh, args.show_tokens) THEN Raise(st, "ValueError")
    ELSE IF ~st.sh.loaded
    THEN \* the settings are kept and the asset is asked to load
         Emit([st EXCEPT !.sh.autoplay_settings = <<args>>],
              Ev("load", 0, <<>>, 0))
    ELSE IF st.sh.total_steps = NoSteps THEN Raise(st, "TypeError")
    ELSE PlayCopy(st, GetShowSteps(st.hp, st.sh.show_steps),
                  [args EXCEPT !.hold = PlayHold(st.sh.total_steps, @),
                               !.loops = PlayLoops(st.sh.total_steps, @)],
                  stopAt)

(***************************************************************************)
(* RunningShow.pause, resume, advance                                       *)
(***************************************************************************)
Pause(st, p) == Unschedule(st, p)

Resume(st, p, stopAt) == RunNextStep(st, p, stopAt)

\* Python's a % b for b # 0: the result has the sign of b
PyMod(a, b) == IF b > 0 THEN a % b ELSE -((-a) % (-b))

\* show_step=None
NoStep == -99

\* lines 530-538: the cursor advance() sets
AdvanceTarget(me, steps, show_step) ==
    IF steps - 1 # 0 THEN PyMod(me.total_steps, steps - 1)
    ELSE IF show_step # NoStep THEN show_step - 1
    ELSE me.next_step_index

\* advance() without the test of lines 525-527
AdvanceUnchecked(st, p, steps, show_step, stopAt) ==
    RunNextStep(
        [Unschedule(st, p) EXCEPT !.pl[p].next_step_index =
            AdvanceTarget(st.pl[p], steps, show_step)],
        p, stopAt)

\* RunningShow.advance(steps, show_step)
Advance(st, p, steps, show_step, stopAt) ==
    IF show_step # NoStep /\ show_step < 0 THEN Raise(st, "ValueError")
    ELSE RunNextStep(
             [Unschedule(st, p) EXCEPT !.pl[p].next_step_index =
                 AdvanceTarget(st.pl[p], steps, show_step)],
             p, stopAt)

(***************************************************************************)
(* The inputs.                                                              *)
(***************************************************************************)
\* one step, one section
OneStepShow ==
    L(<< D(<< <<S("leds"), D(<< <<S("l1"), D(<<>>)>> >>)>> >>) >>)

\* two steps; the first has a token as a key and a token as a value below it
TokenShow ==
    L(<< D(<< <<TimeKey, Num(0)>>,
              <<S("leds"),
                D(<< <<Tok("token1"),
                       D(<< <<S("brightness"), Tok("token2")>>,
                            <<S("color"), S("red")>> >>)>> >>)>> >>),
         D(<< <<S("leds"), S("l2")>>,
              <<S("sounds"), D(<< <<S("s1"), D(<<>>)>> >>)>> >>) >>)

\* three steps, no tokens, one second apart
PlainShow ==
    L(<< D(<< <<S("leds"), S("l1")>>, <<S("sounds"), S("s1")>> >>),
         D(<< <<TimeKey, Num(1)>>, <<S("leds"), S("l2")>> >>),
         D(<< <<TimeKey, Str(<<"+", "1">>)>>, <<S("sounds"), S("s2")>> >>) >>)

ShowData == {OneStepShow, TokenShow, PlainShow}

\* show_tokens, a dict, as the sequence of its items
Bindings ==
    { << >>,
      << <<<<"token1">>, S("led_1")>>, <<<<"token2">>, Num(200)>> >>,
      << <<<<"token2">>, Num(200)>>, <<<<"token1">>, Tok("token1")>> >>,
      << <<<<"token1">>, S("led_1")>> >>,
      << <<<<"other">>, S("led_1")>> >> }

DefaultArgs ==
    [priority |-> 0, hold |-> "None", speed |-> <<1, 1>>, start_step |-> 1,
     callback |-> TRUE, loops |-> -1, sync_ms |-> 0,
     manual_advance |-> FALSE, show_tokens |-> << >>]

\* play()'s arguments: every combination of loops, hold and callback with
\* the other arguments at their defaults, and every loop count with one of
\* the other arguments away from its default
PlayLoopCounts == {-1, 0, 1}
PlayArgs ==
    LET core == {[DefaultArgs EXCEPT !.loops = l, !.hold = h, !.callback = c] :
                    l \in PlayLoopCounts, h \in {"None", "True", "False"},
                    c \in BOOLEAN}
        base == {[DefaultArgs EXCEPT !.loops = l] : l \in PlayLoopCounts}
    IN core
       \cup {[a EXCEPT !.speed = <<1, 2>>] : a \in base}
       \cup {[a EXCEPT !.start_step = n] : a \in base, n \in {2, -1}}
       \cup {[a EXCEPT !.sync_ms = 2000] : a \in base}
       \cup {[a EXCEPT !.manual_advance = TRUE] : a \in base}
       \cup {[a EXCEPT !.priority = 1] : a \in base}
       \cup {[a EXCEPT !.show_tokens = b] : a \in base, b \in Bindings}

\* which call of show_play_callback, within one step, stops the caller
StopAts == 0..Len(ShowPlayerList)

HoldArgs == {"None", "True", "False"}

\* advance()'s arguments <<steps, show_step>>: a target step with the default
\* steps, or a number of steps
AdvanceArgs ==
    {<<1, k>> : k \in {NoStep, -1, 0, 1, 2}} \cup {<<n, NoStep>> : n \in {2, 3}}

\* no hardware platform has been constructed
NoPlatform == [serial |-> "none"]

(***************************************************************************)
(* The state machine.                                                       *)
(***************************************************************************)
VARIABLES
    showData,   \* the data the Show was constructed from
    template,   \* the Show's step data as loaded
    loads,      \* how many loads of show data have been started
    now,        \* the clock
    heap,
    show,
    players,
    timers,
    hist,
    ev,         \* what the last operation did
    err,        \* the exception the last operation raised
    opp         \* the OPP hardware platform, its serial line and its cards

vars ==
    <<showData, template, loads, now, heap, show, players, timers, hist, ev, err,
      opp>>

St == [now |-> now, hp |-> heap, sh |-> show, pl |-> players, tm |-> timers,
       hist |-> hist, ev |-> << >>, err |-> NoErr]

Commit(st) ==
    /\ heap' = st.hp
    /\ show' = st.sh
    /\ players' = st.pl
    /\ timers' = st.tm
    /\ hist' = st.hist
    /\ ev' = st.ev
    /\ err' = st.err
    /\ UNCHANGED <<showData, template, loads, now, opp>>

\* the state after Show(machine, name, data=data), with r its result
Constructed(data, r) ==
    /\ showData = data
    /\ template = Deref(r.hp, r.sh.show_steps)
    /\ loads = IF r.sh.show_steps = PyNone THEN 0 ELSE 1
    /\ now = 0
    /\ heap = r.hp
    /\ show = r.sh
    /\ players = << >>
    /\ timers = << >>
    /\ hist = << >>
    /\ ev = << >>
    /\ err = IF r.status = "ok" THEN NoErr ELSE r.status

Init ==
    /\ \E data \in ShowData : Constructed(data, ShowInit(data))
    /\ opp = NoPlatform

Call(name, p) == Emit(St, Ev("call", p, <<name>>, 0))

\* the call of play() with its arguments: hold and loops, and the name of
\* every binding
RECURSIVE EmitBindings(_, _)
EmitBindings(st, kwargs) ==
    IF kwargs = <<>> THEN st
    ELSE EmitBindings(Emit(st, Ev("binding", 0, Head(kwargs)[1], 0)),
                      Tail(kwargs))
CallPlay(args) ==
    EmitBindings(Emit(Call("play", 0), Ev("args", 0, <<args.hold>>, args.loops)),
                 args.show_tokens)

\* show.play(...)
PlayShow ==
    /\ Len(players) < MaxPlays
    /\ \E args \in PlayArgs, stopAt \in StopAts :
          Commit(Play(CallPlay(args), args, stopAt))

\* the clock's event number i of instance p, removed: it is one-shot
Fired(st, p, i) ==
    [st EXCEPT !.tm[p] = SubSeq(@, 1, i - 1) \o SubSeq(@, i + 1, Len(@))]

\* the clock runs a due _run_next_step event of instance p
TimerFire(p) ==
    \E i \in 1..Len(timers[p]) :
        /\ timers[p][i] <= now
        /\ \E stopAt \in StopAts :
              Commit(RunNextStep(Fired(Call("timer", p), p, i), p, stopAt))

\* time passes
Tick ==
    /\ now < MaxTime
    /\ now' = now + 1
    /\ ev' = << >>
    /\ err' = NoErr
    /\ UNCHANGED <<showData, template, loads, heap, show, players, timers, hist, opp>>

StopShow(p) ==
    \E hold \in HoldArgs : Commit(Stop(Call("stop", p), p, hold))

PauseShow(p) == Commit(Pause(Call("pause", p), p))

ResumeShow(p) ==
    /\ Len(timers[p]) < MaxTimers
    /\ \E stopAt \in StopAts : Commit(Resume(Call("resume", p), p, stopAt))

\* the call of advance() with its arguments
CallAdvance(p, steps, show_step) ==
    Emit(Emit(Call("advance", p), Ev("steps", p, <<>>, steps)),
         Ev("show_step", p, <<>>, show_step))

AdvanceShow(p) ==
    \E a \in AdvanceArgs, stopAt \in StopAts :
        Commit(Advance(CallAdvance(p, a[1], a[2]), p, a[1], a[2], stopAt))

Next ==
    \/ PlayShow
    \/ Tick
    \/ \E p \in 1..Len(players) : TimerFire(p)
    \/ \E p \in 1..Len(players) : StopShow(p)
    \/ \E p \in 1..Len(players) : PauseShow(p)
    \/ \E p \in 1..Len(players) : ResumeShow(p)
    \/ \E p \in 1..Len(players) : AdvanceShow(p)

Spec == Init /\ [][Next]_vars

(***************************************************************************)
(* Reading the record of the last operation.                               *)
(***************************************************************************)
Instances == 1..Len(players)

\* the last operation was the call name on instance p (play: p = 0)
Called(name, p) == ev # << >> /\ ev[1] = Ev("call", p, <<name>>, 0)

\* the last operation did k on, or for, instance p
Did(k, p) == \E i \in 1..Len(ev) : ev[i].k = k /\ ev[i].p = p

\* the numbers recorded with what the last operation did
Numbers(k, p) == {ev[i].n : i \in {j \in 1..Len(ev) : ev[j].k = k /\ ev[j].p = p}}

\* an output handler called caller.stop() during the last operation
HandlerStopped(p) ==
    \E i \in 2..Len(ev) : ev[i].k = "call" /\ ev[i].p = p /\ ev[i].s = <<"stop">>

\* the last operation ran the step at the last index
RanLastStep(p) == players[p].total_steps - 1 \in Numbers("step", p)

(***************************************************************************)
(* The end of the show (lines 569-581).                                    *)
(***************************************************************************)
\* C1: when _run_next_step runs the last step of a multi-step show with a
\* remaining loop count > 0, the loop count is decremented by one and the
\* cursor wraps to index 0.
C1_LoopsLeftWrapToZero ==
    \A p \in Instances : \A n \in Numbers("loops", p) :
        (/\ players[p].total_steps > 1
         /\ RanLastStep(p)
         /\ n > 0
         /\ err = NoErr)
        => /\ players[p].loops = n - 1
           /\ players[p].next_step_index = 0

\* C5: a step run for a player with a negative loop count on a multi-step
\* show, in which no handler calls stop(), does not stop the player, and
\* after the last step the cursor is 0.
C5_InfiniteLoopNeverEnds ==
    \A p \in Instances : \A n \in Numbers("loops", p) :
        (/\ players[p].total_steps > 1
         /\ n < 0
         /\ ~HandlerStopped(p)
         /\ err = NoErr)
        => /\ ~Did("remove", p)
           /\ ~Did("callback", p)
           /\ players[p].loops = n
           /\ RanLastStep(p) => players[p].next_step_index = 0

\* a timer fire ran the last step of a looping player, which goes on
C5_Witness ==
    \E p \in Instances :
        /\ Called("timer", p)
        /\ players[p].total_steps > 1
        /\ RanLastStep(p)
        /\ Numbers("loops", p) = {-1}
        /\ ~players[p].stopped
        /\ players[p].next_step_index = 0
        /\ timers[p] # << >>

\* C6: when the last step runs with loop count 0 the player is stopped and
\* the step schedules no timer; the stop() this step makes, on a player no
\* handler has stopped, removes the instance, cancels its timers, fires the
\* callback and clears the outputs unless hold.
C6_LastStepEndsShow ==
    \A p \in Instances :
        (/\ RanLastStep(p)
         /\ Numbers("loops", p) = {0}
         /\ err = NoErr)
        => /\ players[p].stopped
           /\ p \notin show.running
           /\ ~Did("schedule", p)
           /\ (Did("remove", p) /\ ~HandlerStopped(p))
              => /\ Did("unschedule", p)
                 /\ timers[p] = << >>
                 /\ players[p].callback <=> Did("callback", p)
                 /\ players[p].hold <=> ~Did("clear", p)

\* a timer fire ran the last step of a player with no loops left, no hold
\* and a callback
C6_Witness ==
    \E p \in Instances :
        /\ Called("timer", p)
        /\ players[p].total_steps > 1
        /\ RanLastStep(p)
        /\ Numbers("loops", p) = {0}
        /\ ~HandlerStopped(p)
        /\ Did("remove", p)
        /\ Did("callback", p)
        /\ Did("clear", p)

(***************************************************************************)
(* stop() (lines 484-508).                                                 *)
(***************************************************************************)
\* stop() on an instance that is stopped already: nothing changes
SecondStopIsNoOp(p) ==
    (players[p].stopped /\ Called("stop", p)')
    => /\ UNCHANGED <<heap, show, players, timers, hist>>
       /\ ev' = <<Ev("call", p, <<"stop">>, 0)>>
       /\ err' = NoErr

\* C2: stop() is idempotent: the callback fires at most once, the outputs
\* are cleared for at most one stop(), the instance is removed from
\* show.running exactly once, and a stop() after the first changes nothing.
C2_StopIdempotent ==
    /\ [](\A p \in Instances :
            /\ hist[p].callbacks <= 1
            /\ hist[p].cleared <= 1
            /\ hist[p].removed = IF players[p].stopped THEN 1 ELSE 0
            /\ players[p].stopped <=> p \notin show.running)
    /\ [][\A p \in Instances : SecondStopIsNoOp(p)]_vars

\* stop() was called on an instance stopped before, whose callback had fired
\* and whose outputs had been cleared
C2_Witness ==
    \E p \in Instances :
        /\ Called("stop", p)
        /\ ~Did("remove", p)
        /\ players[p].stopped
        /\ hist[p].callbacks = 1
        /\ hist[p].cleared = 1
        /\ hist[p].removed = 1

\* C3: once an instance is stopped, no later event or call dispatches
\* show_play_callback for it.
C3_StoppedIsTerminal ==
    [][\A p \in Instances : players[p].stopped => ~Did("play", p)']_vars

\* C4: a stopped player has no pending _run_next_step timer.
C4_NoTimerAfterStop ==
    \A p \in Instances : players[p].stopped => timers[p] = << >>

(***************************************************************************)
(* The template and the copies (lines 193-209, 457-482).                   *)
(***************************************************************************)
\* C7: the Show's own step data is what it was when loaded, whatever was
\* played with whatever bindings and whatever was done to the instances.
C7_TemplateUnchanged == Deref(heap, show.show_steps) = template

\* an instance whose copy the substitution has changed
C7_Witness ==
    \E p \in Instances :
        /\ players[p].show_tokens # << >>
        /\ Deref(heap, players[p].show_steps) # template

(***************************************************************************)
(* Token substitution (lines 457-482).                                     *)
(***************************************************************************)
\* the replacement a play() call's show_tokens gives for a token
Bound(kwargs, token) ==
    kwargs[CHOOSE i \in 1..Len(kwargs) : kwargs[i][1] = token][2]

\* x in d and d[x], of a dict with its addresses resolved
HasKey(d, x) == KeyPos(d.v, x) # 0
At(d, x) == d.v[KeyPos(d.v, x)][2]

\* the leds section of the first step of instance p
FirstLeds(p) == At(Deref(heap, players[p].show_steps).v[1], S("leds"))

\* the instances played from the show whose first step has the key
\* "(token1)" with the value "(token2)" below it, with both tokens bound
BothBound ==
    {p \in Instances :
        /\ showData = TokenShow
        /\ {<<"token1">>, <<"token2">>} \subseteq Keys(players[p].show_tokens)}

\* the entry is keyed by token1's replacement, its other content is as it
\* was and the nested value is token2's replacement
Substituted(p) ==
    /\ HasKey(FirstLeds(p), Bound(players[p].show_tokens, <<"token1">>))
    /\ At(FirstLeds(p), Bound(players[p].show_tokens, <<"token1">>))
       = D(<< <<S("brightness"), Bound(players[p].show_tokens, <<"token2">>)>>,
              <<S("color"), S("red")>> >>)

\* C8 as stated: with both tokens bound, the entry is keyed by token1's
\* replacement, the key "(token1)" is gone, the other content is preserved
\* and the nested value is token2's replacement.
C8_RoundTripAnyReplacement ==
    \A p \in BothBound :
        Substituted(p) /\ ~HasKey(FirstLeds(p), Tok("token1"))

\* C8: the same, for a replacement of token1 other than the string
\* "(token1)" itself; with that replacement the entry keeps its key.
C8_RoundTrip ==
    \A p \in BothBound :
        /\ Substituted(p)
        /\ Bound(players[p].show_tokens, <<"token1">>) # Tok("token1")
           => ~HasKey(FirstLeds(p), Tok("token1"))

\* played with token1 bound to "led_1" and token2 to 200
C8_Witness ==
    \E p \in BothBound :
        /\ Bound(players[p].show_tokens, <<"token1">>) = S("led_1")
        /\ Bound(players[p].show_tokens, <<"token2">>) = Num(200)
        /\ At(At(FirstLeds(p), S("led_1")), S("brightness")) = Num(200)

(***************************************************************************)
(* play() (lines 327-375).                                                 *)
(***************************************************************************)
\* the last operation was play() with a binding the show does not declare
PlayedUndeclared ==
    /\ Called("play", 0)
    /\ \E i \in 1..Len(ev) : ev[i].k = "binding" /\ ev[i].s \notin show.tokens

\* C9: play() with a binding whose name the show does not declare raises,
\* and creates no instance: show.running, the instances, their timers and
\* the heap are as before, and nothing but the call is on record.
C9_UndeclaredTokenRejected ==
    [][PlayedUndeclared'
       => /\ err' = "ValueError"
          /\ UNCHANGED <<heap, show, players, timers, hist>>
          /\ \A i \in 1..Len(ev') : ev'[i].k \in {"call", "args", "binding"}]_vars

\* play() of the show that declares token1 and token2, with a binding of
\* another name
C9_Witness ==
    /\ PlayedUndeclared
    /\ show.tokens = {<<"token1">>, <<"token2">>}
    /\ err = "ValueError"

\* the arguments hold and loops of the play() call that was the last
\* operation
PlayedWith == {<<ev[i].s[1], ev[i].n>> : i \in {j \in 1..Len(ev) : ev[j].k = "args"}}

\* C10: play() of a show with exactly one step creates an instance with
\* loops = 0 whatever loops the caller passed, and with hold = True when the
\* caller passed no hold; loops stays 0 afterwards.
C10_SingleStepDefaults ==
    \A p \in Instances :
        show.total_steps = 1
        => /\ players[p].loops = 0
           /\ \A a \in PlayedWith :
                 (Did("created", p) /\ a[1] = "None") => players[p].hold

\* play(loops=-1) of the one-step show, without hold
C10_Witness ==
    \E p \in Instances :
        /\ show.total_steps = 1
        /\ Did("created", p)
        /\ <<"None", -1>> \in PlayedWith
        /\ players[p].loops = 0
        /\ players[p].hold

(***************************************************************************)
(* Loading: Show(data=...) for any show data, then further loads into the  *)
(* same Show, from data or from a show file.                               *)
(***************************************************************************)
\* the steps show data is made of
StepNoTime == D(<< <<S("leds"), S("l1")>> >>)
StepAt0 == D(<< <<TimeKey, Num(0)>>, <<S("leds"), S("l1")>> >>)
StepAt1 == D(<< <<TimeKey, Num(1)>>, <<S("sounds"), S("s1")>> >>)
StepAt2 == D(<< <<TimeKey, Str(<<"2">>)>>, <<S("leds"), Tok("led")>> >>)
StepPlus1 == D(<< <<TimeKey, Str(<<"+", "1">>)>>, <<S("leds"), S("l2")>> >>)
StepBadSection ==
    D(<< <<TimeKey, Num(1)>>, <<S("leds"), S("l1")>>, <<S("bogus"), S("x")>> >>)
LoadStepKinds ==
    {StepNoTime, StepAt0, StepAt1, StepAt2, StepPlus1, StepBadSection}

\* how many steps the data given to the constructor have at most
MaxSteps == 3
\* how many loads one Show sees
MaxLoads == 2

\* lists of steps, and roots that are not lists: a dict, a string, None
StepLists(n) ==
    {L(s) : s \in UNION {[1..k -> LoadStepKinds] : k \in 0..n}}
OtherRoots == {D(<< <<S("leds"), S("l1")>> >>), S("x"), PyNone}
LoadData == StepLists(MaxSteps) \cup OtherRoots
\* what a later load is given: steps that load, a step with an unknown
\* section behind one that loads, steps out of order, no steps, and the roots
\* that are not lists
ReloadData ==
    {L(<<StepAt0, StepAt2>>), L(<<StepNoTime, StepBadSection>>),
     L(<<StepAt1, StepAt0>>), L(<< >>)} \cup OtherRoots
FileVersions == {SupportedShowVersion, SupportedShowVersion + 1}

\* a constructor that raises leaves no Show behind
LoadInit ==
    \E data \in LoadData :
        /\ ShowInit(data).status \in {"ok", "false"}
        /\ Constructed(data, ShowInit(data))
        /\ opp = NoPlatform

\* the state after a load that ended as r says
Loaded(name, data, r) ==
    /\ showData' = data
    /\ template' = Deref(r.hp, r.sh.show_steps)
    /\ loads' = loads + 1
    /\ heap' = r.hp
    /\ show' = r.sh
    /\ ev' = <<Ev("call", 0, <<name>>, 0)>>
    /\ err' = IF r.status = "ok" THEN NoErr ELSE r.status
    /\ UNCHANGED <<now, players, timers, hist, opp>>

\* show.do_load_show(data)
LoadShow ==
    /\ loads < MaxLoads
    /\ \E data \in ReloadData :
          Loaded("do_load_show", data, DoLoadShow(heap, show, data))

\* show.do_load(), the Show having a file
LoadFile ==
    /\ loads < MaxLoads
    /\ \E version \in FileVersions, contents \in ReloadData :
          Loaded("do_load", contents, DoLoad(heap, show, version, contents))

LoadNext ==
    \/ LoadShow
    \/ LoadFile

LoadSpec == LoadInit /\ [][LoadNext]_vars

\* the steps the Show holds
StoredSteps ==
    IF show.show_steps = PyNone THEN << >> ELSE heap[show.show_steps.v].v

\* the last load, of a list of steps, succeeded
LoadedList ==
    /\ err = NoErr
    /\ show.show_steps # PyNone
    /\ showData.k = "list"

\* C11: after a load that fails because an absolute step time is less than
\* the running total, the Show holds none of the steps processed before and
\* is not marked loaded.
C11_OutOfOrderLoadsNothing ==
    err = "false" => (StoredSteps = << >> /\ ~show.loaded)

\* C12: a load that fails for format, section or version reasons leaves
\* show_steps, total_steps and the token index as they were before the call.
C12_FailedLoadChangesNothing ==
    [][err' = "ValueError"
       => /\ Deref(heap', show'.show_steps) = Deref(heap, show.show_steps)
          /\ show'.total_steps = show.total_steps
          /\ show'.tokens = show.tokens
          /\ show'.token_keys = show.token_keys
          /\ show'.token_values = show.token_values]_vars

\* the stored step of source step i: a step put in front shifts the others
StoredFor(i) == template.v[i + (Len(template.v) - Len(showData.v))]

\* C13: on load, a step 0 without a time key gets relative time 0 and every
\* later step without a time key gets relative time 1.
C13_DefaultStepTimes ==
    LoadedList
    => \A i \in 1..Len(showData.v) :
          ~HasKey(showData.v[i], TimeKey)
          => At(StoredFor(i), TimeKey) = Num(IF i = 1 THEN 0 ELSE 1)

\* loaded: two steps, neither with a time key
C13_Witness ==
    /\ LoadedList
    /\ showData = L(<<StepNoTime, StepNoTime>>)
    /\ At(template.v[1], TimeKey) = Num(0)
    /\ At(template.v[2], TimeKey) = Num(1)

\* the sum of the stored relative times
RECURSIVE SumOfTimes(_)
SumOfTimes(steps) ==
    IF steps = << >> THEN 0
    ELSE At(Head(steps), TimeKey).v + SumOfTimes(Tail(steps))

\* every source step has an absolute time
AllAbsolute ==
    /\ showData.v # << >>
    /\ \A i \in 1..Len(showData.v) :
          /\ HasKey(showData.v[i], TimeKey)
          /\ ~IsRelative(At(showData.v[i], TimeKey))

\* C14: for a loaded show whose steps all have absolute times, the stored
\* relative times, a step put in front included, add up to the absolute
\* time of the last source step.
C14_RelativeTimesSum ==
    (LoadedList /\ AllAbsolute)
    => SumOfTimes(template.v)
       = StringToSecs(At(showData.v[Len(showData.v)], TimeKey))

\* loaded: steps at 1 and at 2, behind a step put in front
C14_Witness ==
    /\ LoadedList
    /\ showData = L(<<StepAt1, StepAt2>>)
    /\ Len(template.v) = 3
    /\ SumOfTimes(template.v) = 2

(***************************************************************************)
(* advance(), pause() and resume() (lines 510-542).                        *)
(***************************************************************************)
\* the last operation was advance() on p with a negative show_step
AdvancedToNegative(p) ==
    /\ Called("advance", p)
    /\ \E n \in Numbers("show_step", p) : n # NoStep /\ n < 0

\* C15: advance(show_step=n) with n < 0 raises and leaves the player as it
\* was: cursor, loop count and pending timers (and everything else).
C15_NegativeStepRejected ==
    [][\A p \in Instances :
          AdvancedToNegative(p)'
          => /\ err' = "ValueError"
             /\ UNCHANGED <<heap, show, players, timers, hist>>]_vars

\* advance(show_step=-1) on a player with a pending timer
C15_Witness ==
    \E p \in Instances :
        /\ AdvancedToNegative(p)
        /\ err = "ValueError"
        /\ timers[p] # << >>
        /\ ~players[p].stopped

\* the player was running when the last operation began
WasRunning(p) == players[p].stopped => Did("remove", p)

\* C16: advance() on a running player cancels the pending timer and runs the
\* step at the target index during the call.
C16_AdvanceRunsStep ==
    \A p \in Instances :
        (Called("advance", p) /\ WasRunning(p) /\ err = NoErr)
        => /\ Did("unschedule", p)
           /\ Did("step", p)

\* C17: pause() leaves no pending timer and keeps cursor and loop count; a
\* following resume() runs the step at the cursor and, for a player without
\* manual_advance that this step does not end, leaves a timer pending.
C17_PauseThenResume ==
    [][\A p \in Instances :
          /\ Called("pause", p)'
             => /\ timers'[p] = << >>
                /\ players'[p] = players[p]
          /\ (Called("pause", p) /\ ~players[p].stopped /\ Called("resume", p)'
              /\ err' = NoErr)
             => /\ players[p].next_step_index \in Numbers("step", p)'
                /\ (~players'[p].manual_advance /\ ~players'[p].stopped)
                   => timers'[p] # << >>]_vars

\* C18: a player has at most one pending _run_next_step timer.
C18_OnePendingTimer == \A p \in Instances : Len(timers[p]) <= 1


(***************************************************************************)
(* The OPP hardware platform (src/mpf/platforms/opp.py).  Bytes are the    *)
(* integers 0..255, a message is a sequence of bytes, and msg[i] of the    *)
(* code is msg[i + 1] here.                                                *)
(***************************************************************************)
Bit(x, i) == (x \div (2 ^ i)) % 2

\* a ^ b and a & b of two bytes
XorBit(a, b, i) == ((Bit(a, i) + Bit(b, i)) % 2) * (2 ^ i)
AndBit(a, b, i) == (Bit(a, i) * Bit(b, i)) * (2 ^ i)
BitXor(a, b) ==
    XorBit(a, b, 0) + XorBit(a, b, 1) + XorBit(a, b, 2) + XorBit(a, b, 3)
    + XorBit(a, b, 4) + XorBit(a, b, 5) + XorBit(a, b, 6) + XorBit(a, b, 7)
BitAnd(a, b) ==
    AndBit(a, b, 0) + AndBit(a, b, 1) + AndBit(a, b, 2) + AndBit(a, b, 3)
    + AndBit(a, b, 4) + AndBit(a, b, 5) + AndBit(a, b, 6) + AndBit(a, b, 7)

\* a 32-bit word is the sequence of its four bytes, the most significant
\* first
WordBit(w, index) == Bit(w[4 - (index \div 8)], index % 8)
WordXor(a, b) == [i \in 1..4 |-> BitXor(a[i], b[i])]

\* the protocol's constants (OppRs232Intf)
CARD_ID_GEN2_CARD == 32
GET_GET_VERS_CMD == 2
READ_GEN2_INP_CMD == 8
GET_GEN2_CFG == 13
INV_CMD == 240
EOM_CMD == 255
ILLEGAL_CMD == -1

\* the constants of OppRs232Intf that the configuration and the incandescents
\* use
OppRs232Intf ==
    [CARD_ID_TYPE_MASK |-> 240, NUM_G2_WING_PER_BRD |-> 4,
     WING_SOL |-> 1, WING_INP |-> 2, WING_INCAND |-> 3, WING_NEO |-> 6,
     INCAND_CMD |-> 19, INCAND_SET_ON_OFF |-> 128,
     CFG_IND_SOL_CMD |-> 20, CFG_SOL_USE_SWITCH |-> 1, CFG_SOL_AUTO_CLR |-> 2]

\* lines 26-27, as 32-bit words
MIN_FW == <<0, 0, 1, 0>>
BAD_FW_VERSION == <<1, 2, 3, 4>>

\* OppRs232Intf.CRC8_LOOKUP: the table of the CRC-8 of polynomial 0x07; its
\* entry for c is c shifted left eight times, the polynomial taken off
\* whenever the top bit falls out
Crc8Shift(c) == IF c >= 128 THEN BitXor((2 * c) % 256, 7) ELSE 2 * c
CRC8_LOOKUP ==
    [c \in 0..255 |->
        Crc8Shift(Crc8Shift(Crc8Shift(Crc8Shift(
            Crc8Shift(Crc8Shift(Crc8Shift(Crc8Shift(c))))))))]

\* OppRs232Intf.calc_crc8_part_msg: the CRC, started at 0xff, of the n bytes
\* of msg from start on
RECURSIVE CalcCrc8PartMsg(_, _, _)
CalcCrc8PartMsg(msg, start, n) ==
    IF n = 0 THEN 255
    ELSE CRC8_LOOKUP[BitXor(CalcCrc8PartMsg(msg, start, n - 1), msg[start + n])]

CalcCrc8WholeMsg(msg) == CalcCrc8PartMsg(msg, 0, Len(msg))

(***************************************************************************)
(* The platform, its cards and its registries.                             *)
(***************************************************************************)
\* the numbers "card-index" of a card at addr for the indexes in bits
CardNumbers(addr, bits) == {<<addr - CARD_ID_GEN2_CARD, index>> : index \in bits}

\* dict[number] = value for the numbers given
Registered(dict, numbers, value) ==
    [n \in DOMAIN dict \cup numbers |-> IF n \in numbers THEN value ELSE dict[n]]

\* OPPInputCard.__init__ (lines 710-723): the card object, and the keys it
\* puts into inp_dict
OPPInputCard(addr, mask) ==
    [addr |-> addr, oldState |-> <<0, 0, 0, 0>>, mask |-> mask,
     cardNum |-> addr - CARD_ID_GEN2_CARD]
InputNumbers(addr, mask) ==
    CardNumbers(addr, {index \in 0..31 : WordBit(mask, index) # 0})

\* OPPIncandCard.__init__ (lines 570-584)
OPPIncandCard(addr, mask) ==
    [addr |-> addr, oldState |-> <<0, 0, 0, 0>>, newState |-> <<0, 0, 0, 0>>,
     mask |-> mask]
IncandNumbers(addr, mask) ==
    CardNumbers(addr, {index \in 0..31 : WordBit(mask, index) # 0})

\* OPPSolenoidCard.__init__ (lines 691-707) and OPPSolenoid.__init__ (lines
\* 612-618); the mask of a solenoid card has 16 bits
OPPSolenoidCard(addr, mask) == [addr |-> addr, mask |-> mask, state |-> 0]
OPPSolenoid(sol_card, number) ==
    [solCard |-> sol_card, number |-> number, config |-> "default",
     can_be_pulsed |-> FALSE, use_switch |-> FALSE]
SolenoidNumbers(addr, mask) ==
    CardNumbers(addr, {index \in 0..15 : Bit(mask, index) # 0})

\* the input card that inp_addr_dict holds for addr: the dict refers to the
\* card objects of opp_inputs by their place
InpCard(o, addr) == o.opp_inputs[o.inpAddrDict[addr]]

\* lines 260-268: the command that reads the inputs of the card at addr
ReadInputCmd(addr) ==
    <<addr, READ_GEN2_INP_CMD, 0, 0, 0, 0,
      CalcCrc8WholeMsg(<<addr, READ_GEN2_INP_CMD, 0, 0, 0, 0>>)>>

\* HardwarePlatform.__init__ (lines 38-95) before it connects to the
\* hardware.  wire holds the bytes the serial line has still to deliver,
\* partMsg and receive_queue are the communicator's and the platform's, and
\* send_queue holds the messages handed to send().  The dicts refer to a
\* card by its place in the list of its kind.  ports counts the ports of
\* the config still to connect; pc and count are the place of the
\* communicator in identify_connection and its count of probes.  serial is
\* the state of the port and serial_connection tells that the attribute
\* holds it; sending, receiving and stopping are the places of the two
\* threads and of stop(), msg is the message the sending loop holds, and
\* crash_queue is the machine's
NewPlatform ==
    [ports |-> 0, pc |-> "none", count |-> 0,
     serial |-> "none", serial_connection |-> FALSE,
     sending |-> "none", receiving |-> "none", stopping |-> "none",
     msg |-> << >>, sends |-> 0, crash_queue |-> << >>,
     wire |-> << >>,
     partMsg |-> << >>,
     receive_queue |-> << >>,
     send_queue |-> << >>,
     opp_connection |-> FALSE,
     opp_incands |-> << >>, incandDict |-> << >>,
     opp_solenoid |-> << >>, solDict |-> << >>,
     opp_inputs |-> << >>, inpDict |-> << >>, inpAddrDict |-> << >>,
     opp_neopixels |-> << >>,
     read_input_msg |-> <<EOM_CMD>>,
     incand_reg |-> FALSE,
     numGen2Brd |-> 0, gen2AddrArr |-> << >>, currInpData |-> << >>,
     badCRC |-> 0,
     oppFirmwareVers |-> << >>,
     minVersion |-> <<255, 255, 255, 255>>,
     tickCnt |-> 0]

\* the platform during one call: what the call has done, and the exception
\* it has raised
Plat(o) == [o |-> o, ev |-> << >>, err |-> NoErr]

Handled(name, msg) == [k |-> "handler", name |-> name, msg |-> msg]
Warned(text, msg) == [k |-> "warning", name |-> text, msg |-> msg]

\* switch_controller.process_switch_by_num(state, num = cardNum-index)
Switched(cardNum, index, state) ==
    [k |-> "switch", num |-> <<cardNum, index>>, state |-> state]

(***************************************************************************)
(* read_gen2_inp_resp (lines 329-363).                                     *)
(***************************************************************************)
\* lines 340-343
NewState(msg) == <<msg[3], msg[4], msg[5], msg[6]>>

\* lines 349-361: the loop over index, from index on
RECURSIVE ProcessSwitches(_, _, _, _)
ProcessSwitches(cardNum, changes, new_state, index) ==
    IF index = 32 THEN << >>
    ELSE (IF WordBit(changes, index) # 0
          THEN <<Switched(cardNum, index,
                          IF WordBit(new_state, index) = 0 THEN 1 ELSE 0)>>
          ELSE << >>)
         \o ProcessSwitches(cardNum, changes, new_state, index + 1)

\* lines 346-362, the machine having a switch_controller
UpdateInputs(st, addr, new_state) ==
    [st EXCEPT
        !.ev = @ \o ProcessSwitches(InpCard(st.o, addr).cardNum,
                                    WordXor(InpCard(st.o, addr).oldState,
                                            new_state),
                                    new_state, 0),
        !.o.opp_inputs[st.o.inpAddrDict[addr]].oldState = new_state]

\* the handler that applies the inputs and keeps the old state
ReadGen2InpRespStale(st, msg) ==
    IF msg[7] # CalcCrc8PartMsg(msg, 0, 6)
    THEN [st EXCEPT !.o.badCRC = @ + 1,
                    !.ev = Append(@, Warned("bad CRC", msg))]
    ELSE IF msg[1] \notin DOMAIN st.o.inpAddrDict
    THEN [st EXCEPT !.err = "KeyError"]
    ELSE [st EXCEPT !.ev = UpdateInputs(st, msg[1], NewState(msg)).ev]

ReadGen2InpResp(st, msg) ==
    IF msg[7] # CalcCrc8PartMsg(msg, 0, 6)
    THEN [st EXCEPT !.o.badCRC = @ + 1,
                    !.ev = Append(@, Warned("bad CRC", msg))]
    ELSE IF msg[1] \notin DOMAIN st.o.inpAddrDict
    THEN [st EXCEPT !.err = "KeyError"]
    ELSE UpdateInputs(st, msg[1], NewState(msg))

\* opp_connection.send(msg) (lines 968-976): the message is put on the send
\* queue; without a connection opp_connection is None
Sent(msg) == [k |-> "send", name |-> "send", msg |-> msg]
Send(st, msg) ==
    IF ~st.o.opp_connection THEN [st EXCEPT !.err = "AttributeError"]
    ELSE [st EXCEPT !.o.send_queue = Append(@, msg),
                    !.ev = Append(@, Sent(msg))]

(***************************************************************************)
(* get_gen2_cfg_resp (lines 220-286).                                      *)
(***************************************************************************)
\* msg[curr_index + 2 + wing_index]
Wing(msg, curr_index, wing_index) == msg[curr_index + 3 + wing_index]

\* lines 238-247: the masks of a board; the byte of wing w of a 32-bit
\* mask is byte 4 - w of the word
SolMask(msg, curr_index) ==
    (IF Wing(msg, curr_index, 0) = OppRs232Intf.WING_SOL THEN 15 ELSE 0)
    + (IF Wing(msg, curr_index, 1) = OppRs232Intf.WING_SOL THEN 15 * 16 ELSE 0)
    + (IF Wing(msg, curr_index, 2) = OppRs232Intf.WING_SOL THEN 15 * 256 ELSE 0)
    + (IF Wing(msg, curr_index, 3) = OppRs232Intf.WING_SOL THEN 15 * 4096 ELSE 0)
InpMask(msg, curr_index) ==
    [b \in 1..OppRs232Intf.NUM_G2_WING_PER_BRD |->
        IF Wing(msg, curr_index, 4 - b) = OppRs232Intf.WING_SOL THEN 15
        ELSE IF Wing(msg, curr_index, 4 - b) = OppRs232Intf.WING_INP THEN 255
        ELSE 0]
IncandMask(msg, curr_index) ==
    [b \in 1..OppRs232Intf.NUM_G2_WING_PER_BRD |->
        IF Wing(msg, curr_index, 4 - b) = OppRs232Intf.WING_INCAND THEN 255
        ELSE 0]
HasNeo(msg, curr_index) ==
    \E w \in 0..(OppRs232Intf.NUM_G2_WING_PER_BRD - 1) :
        Wing(msg, curr_index, w) = OppRs232Intf.WING_NEO

\* lines 248-249
AddIncandCard(o, addr, mask) ==
    IF mask = <<0, 0, 0, 0>> THEN o
    ELSE [o EXCEPT
            !.opp_incands = Append(@, OPPIncandCard(addr, mask)),
            !.incandDict = Registered(@, IncandNumbers(addr, mask),
                                      Len(o.opp_incands) + 1)]

\* lines 250-251
AddSolenoidCard(o, addr, mask) ==
    IF mask = 0 THEN o
    ELSE [o EXCEPT
            !.opp_solenoid = Append(@, OPPSolenoidCard(addr, mask)),
            !.solDict =
                [n \in DOMAIN o.solDict \cup SolenoidNumbers(addr, mask) |->
                    IF n \in SolenoidNumbers(addr, mask)
                    THEN OPPSolenoid(Len(o.opp_solenoid) + 1, n)
                    ELSE o.solDict[n]]]

\* lines 252-255
AddInputCard(o, addr, mask) ==
    IF mask = <<0, 0, 0, 0>> THEN o
    ELSE [o EXCEPT
            !.opp_inputs = Append(@, OPPInputCard(addr, mask)),
            !.inpAddrDict = Registered(@, {addr}, Len(o.opp_inputs) + 1),
            !.inpDict = Registered(@, InputNumbers(addr, mask),
                                   Len(o.opp_inputs) + 1)]

\* lines 269-270
AddNeopixelCard(o, addr, has_neo) ==
    IF has_neo THEN [o EXCEPT !.opp_neopixels = Append(@, addr)] ELSE o

\* lines 234-270: the cards of the board at curr_index
AddBoard(o, msg, curr_index) ==
    AddNeopixelCard(
        AddInputCard(
            AddSolenoidCard(
                AddIncandCard(o, msg[curr_index + 1], IncandMask(msg, curr_index)),
                msg[curr_index + 1], SolMask(msg, curr_index)),
            msg[curr_index + 1], InpMask(msg, curr_index)),
        msg[curr_index + 1], HasNeo(msg, curr_index))

\* lines 256-268: what the board adds to whole_msg
BoardPoll(msg, curr_index) ==
    IF InpMask(msg, curr_index) = <<0, 0, 0, 0>> THEN << >>
    ELSE ReadInputCmd(msg[curr_index + 1])

\* lines 285-286
SetReadInputMsg(st, whole_msg) ==
    [st EXCEPT !.o.read_input_msg = whole_msg \o <<EOM_CMD>>]

\* lines 225-286: the loop from curr_index on, whole_msg being what the
\* boards before have added.  A message that ends before the bytes the code
\* reads raises IndexError
RECURSIVE GetGen2CfgRespFrom(_, _, _, _)
GetGen2CfgRespFrom(st, msg, curr_index, whole_msg) ==
    IF Len(msg) < curr_index + 7 THEN [st EXCEPT !.err = "IndexError"]
    ELSE IF msg[curr_index + 7] # CalcCrc8PartMsg(msg, curr_index, 6)
    THEN SetReadInputMsg(
             [st EXCEPT !.o.badCRC = @ + 1,
                        !.ev = Append(@, Warned("bad CRC", msg))],
             whole_msg)
    ELSE IF Len(msg) < curr_index + 8
    THEN [st EXCEPT !.o = AddBoard(@, msg, curr_index), !.err = "IndexError"]
    ELSE IF msg[curr_index + 8] = EOM_CMD
    THEN SetReadInputMsg([st EXCEPT !.o = AddBoard(@, msg, curr_index)],
                         whole_msg \o BoardPoll(msg, curr_index))
    ELSE IF Len(msg) < curr_index + 9
    THEN [st EXCEPT !.o = AddBoard(@, msg, curr_index), !.err = "IndexError"]
    ELSE IF msg[curr_index + 9] = GET_GEN2_CFG
    THEN GetGen2CfgRespFrom([st EXCEPT !.o = AddBoard(@, msg, curr_index)],
                            msg, curr_index + 7,
                            whole_msg \o BoardPoll(msg, curr_index))
    ELSE SetReadInputMsg(
             [st EXCEPT !.o = AddBoard(@, msg, curr_index),
                        !.ev = Append(@, Warned("malformed", msg))],
             whole_msg \o BoardPoll(msg, curr_index))

GetGen2CfgResp(st, msg) == GetGen2CfgRespFrom(st, msg, 0, << >>)

(***************************************************************************)
(* inv_resp (lines 204-214) and vers_resp (lines 288-327).                 *)
(***************************************************************************)
RECURSIVE InvRespFrom(_, _, _)
InvRespFrom(st, msg, index) ==
    IF Len(msg) < index + 1 THEN [st EXCEPT !.err = "IndexError"]
    ELSE IF msg[index + 1] = EOM_CMD THEN st
    ELSE IF BitAnd(msg[index + 1], OppRs232Intf.CARD_ID_TYPE_MASK)
            = CARD_ID_GEN2_CARD
    THEN InvRespFrom([st EXCEPT !.o.numGen2Brd = @ + 1,
                                !.o.gen2AddrArr = Append(@, msg[index + 1]),
                                !.o.currInpData = Append(@, 0)],
                     msg, index + 1)
    ELSE InvRespFrom(st, msg, index + 1)

InvResp(st, msg) == InvRespFrom(st, msg, 1)

\* a < b of two 32-bit words
WordLess(a, b) ==
    \E i \in 1..4 : a[i] < b[i] /\ \A j \in 1..(i - 1) : a[j] = b[j]

\* lines 301-304
Version(msg, curr_index) ==
    <<msg[curr_index + 3], msg[curr_index + 4], msg[curr_index + 5],
      msg[curr_index + 6]>>

\* lines 308-309, for the first version of the platform only
SeenVersionFirstOnly(st, version) ==
    IF st.o.oppFirmwareVers = << >> /\ WordLess(version, st.o.minVersion)
    THEN [st EXCEPT !.o.minVersion = version]
    ELSE st

\* lines 308-309
SeenVersion(st, version) ==
    IF WordLess(version, st.o.minVersion)
    THEN [st EXCEPT !.o.minVersion = version]
    ELSE st

\* lines 293-327: the loop from curr_index on
RECURSIVE VersRespFrom(_, _, _)
VersRespFrom(st, msg, curr_index) ==
    IF Len(msg) < curr_index + 7 THEN [st EXCEPT !.err = "IndexError"]
    ELSE IF msg[curr_index + 7] # CalcCrc8PartMsg(msg, curr_index, 6)
    THEN [st EXCEPT !.o.badCRC = @ + 1,
                    !.ev = Append(@, Warned("bad CRC", msg))]
    ELSE IF Version(msg, curr_index) = BAD_FW_VERSION
    THEN [SeenVersion(st, Version(msg, curr_index))
             EXCEPT !.err = "AssertionError"]
    ELSE IF Len(msg) < curr_index + 8
    THEN [SeenVersion(st, Version(msg, curr_index))
             EXCEPT !.o.oppFirmwareVers = Append(@, Version(msg, curr_index)),
                    !.err = "IndexError"]
    ELSE IF msg[curr_index + 8] = EOM_CMD
    THEN [SeenVersion(st, Version(msg, curr_index))
             EXCEPT !.o.oppFirmwareVers = Append(@, Version(msg, curr_index))]
    ELSE IF Len(msg) < curr_index + 9
    THEN [SeenVersion(st, Version(msg, curr_index))
             EXCEPT !.o.oppFirmwareVers = Append(@, Version(msg, curr_index)),
                    !.err = "IndexError"]
    ELSE IF msg[curr_index + 9] = GET_GET_VERS_CMD
    THEN VersRespFrom(
             [SeenVersion(st, Version(msg, curr_index))
                 EXCEPT !.o.oppFirmwareVers = Append(@, Version(msg, curr_index))],
             msg, curr_index + 7)
    ELSE [SeenVersion(st, Version(msg, curr_index))
             EXCEPT !.o.oppFirmwareVers = Append(@, Version(msg, curr_index)),
                    !.ev = Append(@, Warned("malformed", msg))]

VersResp(st, msg) == VersRespFrom(st, msg, 0)

(***************************************************************************)
(* The incandescents: OPPIncand.on and off (lines 592-607) and             *)
(* update_incand (lines 150-185).                                          *)
(***************************************************************************)
\* newState |= curr_bit and newState &= ~curr_bit
WordSet(w, index) ==
    [b \in 1..4 |-> IF b = 4 - (index \div 8)
                    THEN w[b] + (1 - Bit(w[b], index % 8)) * (2 ^ (index % 8))
                    ELSE w[b]]
WordClear(w, index) ==
    [b \in 1..4 |-> IF b = 4 - (index \div 8)
                    THEN w[b] - Bit(w[b], index % 8) * (2 ^ (index % 8))
                    ELSE w[b]]

\* OPPIncand.on(brightness) and OPPIncand.off() of the light incandDict
\* holds for number
IncandOn(st, number, brightness) ==
    [st EXCEPT !.o.opp_incands[st.o.incandDict[number]].newState =
                   IF brightness = 0 THEN WordClear(@, number[2])
                   ELSE WordSet(@, number[2])]
IncandOff(st, number) ==
    [st EXCEPT !.o.opp_incands[st.o.incandDict[number]].newState =
                   WordClear(@, number[2])]

\* line 166
IncandChanged(incand) ==
    WordXor(incand.oldState, incand.newState) # <<0, 0, 0, 0>>

\* lines 169-177
IncandCmd(incand) ==
    <<incand.addr, OppRs232Intf.INCAND_CMD, OppRs232Intf.INCAND_SET_ON_OFF,
      incand.newState[1], incand.newState[2], incand.newState[3],
      incand.newState[4],
      CalcCrc8WholeMsg(<<incand.addr, OppRs232Intf.INCAND_CMD,
                         OppRs232Intf.INCAND_SET_ON_OFF,
                         incand.newState[1], incand.newState[2],
                         incand.newState[3], incand.newState[4]>>)>>

\* lines 163-178: whole_msg, of the cards from place i on
RECURSIVE IncandMsgs(_, _)
IncandMsgs(opp_incands, i) ==
    IF i > Len(opp_incands) THEN << >>
    ELSE (IF IncandChanged(opp_incands[i]) THEN IncandCmd(opp_incands[i])
          ELSE << >>)
         \o IncandMsgs(opp_incands, i + 1)

\* lines 166-168, of every card
IncandsSent(opp_incands) ==
    [i \in DOMAIN opp_incands |->
        [opp_incands[i] EXCEPT !.oldState = opp_incands[i].newState]]

\* update_incand that sends a command on every call
UpdateIncandAlways(st) ==
    Send([st EXCEPT !.o.opp_incands = IncandsSent(st.o.opp_incands)],
         IncandMsgs(st.o.opp_incands, 1) \o <<EOM_CMD>>)

UpdateIncand(st) ==
    IF IncandMsgs(st.o.opp_incands, 1) = << >> THEN st
    ELSE Send([st EXCEPT !.o.opp_incands = IncandsSent(st.o.opp_incands)],
              IncandMsgs(st.o.opp_incands, 1) \o <<EOM_CMD>>)

(***************************************************************************)
(* configure_driver, configure_switch, configure_matrixlight (lines        *)
(* 401-463) and reconfigure_driver (lines 364-399).  A config is the       *)
(* validated section of the device: an entry that is None or missing is 0  *)
(* or FALSE here.                                                          *)
(***************************************************************************)
\* lines 509-522
GetHoldValue(config) ==
    IF config.hold_power16 # 0 THEN config.hold_power16
    ELSE IF config.hold_power # 0
    THEN (IF config.hold_power >= 8 THEN 15 ELSE config.hold_power * 2)
    ELSE IF config.allow_enable THEN 15
    ELSE 0

\* lines 524-531
GetMinimumOffTime(config) ==
    IF ~config.recycle THEN 0
    ELSE IF config.recycle_factor # 0 THEN config.recycle_factor
    ELSE 2

\* lines 366-383: cmd
SolenoidCmd(use_hold, use_switch) ==
    (IF use_hold THEN 0 ELSE OppRs232Intf.CFG_SOL_AUTO_CLR)
    + (IF use_switch THEN OppRs232Intf.CFG_SOL_USE_SWITCH ELSE 0)

\* lines 388-396, without the CRC and the EOM
SolenoidCfg(addr, number, config, use_hold, use_switch) ==
    <<addr, OppRs232Intf.CFG_IND_SOL_CMD, number[2],
      SolenoidCmd(use_hold, use_switch), config.pulse_ms,
      (IF use_hold THEN GetHoldValue(config) ELSE 0)
      + GetMinimumOffTime(config) * 16>>

\* lines 364-399, of the solenoid solDict holds for number
ReconfigureDriver(st, number, config, use_hold) ==
    IF use_hold /\ GetHoldValue(config) = 0
    THEN [st EXCEPT !.o.solDict[number].can_be_pulsed = FALSE,
                    !.err = "AssertionError"]
    ELSE Send([st EXCEPT !.o.solDict[number].can_be_pulsed = ~use_hold],
              SolenoidCfg(st.o.opp_solenoid[st.o.solDict[number].solCard].addr,
                          number, config, use_hold,
                          st.o.solDict[number].use_switch)
              \o <<CalcCrc8WholeMsg(
                       SolenoidCfg(st.o.opp_solenoid[st.o.solDict[number].solCard].addr,
                                   number, config, use_hold,
                                   st.o.solDict[number].use_switch)),
                   EOM_CMD>>)

\* configure_driver that takes every number
ConfigureDriverUnchecked(st, number, config) ==
    IF ~st.o.opp_connection THEN [st EXCEPT !.err = "AssertionError"]
    ELSE ReconfigureDriver([st EXCEPT !.o.solDict =
                                Registered(@, {number}, OPPSolenoid(1, number)),
                                      !.o.solDict[number].config = config],
                           number, config, GetHoldValue(config) # 0)

\* lines 401-418
ConfigureDriver(st, number, config) ==
    IF ~st.o.opp_connection THEN [st EXCEPT !.err = "AssertionError"]
    ELSE IF number \notin DOMAIN st.o.solDict
    THEN [st EXCEPT !.err = "AssertionError"]
    ELSE ReconfigureDriver([st EXCEPT !.o.solDict[number].config = config],
                           number, config, GetHoldValue(config) # 0)

\* lines 420-431
ConfigureSwitch(st, number) ==
    IF ~st.o.opp_connection THEN [st EXCEPT !.err = "AssertionError"]
    ELSE IF number \notin DOMAIN st.o.inpDict
    THEN [st EXCEPT !.err = "AssertionError"]
    ELSE st

\* lines 450-463
ConfigureMatrixlight(st, number) ==
    IF ~st.o.opp_connection THEN [st EXCEPT !.err = "AssertionError"]
    ELSE IF number \notin DOMAIN st.o.incandDict
    THEN [st EXCEPT !.err = "AssertionError"]
    ELSE [st EXCEPT !.o.incand_reg = TRUE]

(***************************************************************************)
(* process_received_message (lines 100-127).                               *)
(***************************************************************************)
\* lines 105-119
Command(msg) ==
    IF Len(msg) >= 1
    THEN IF msg[1] >= CARD_ID_GEN2_CARD /\ msg[1] < CARD_ID_GEN2_CARD + 32
         THEN IF Len(msg) >= 2 THEN msg[2] ELSE ILLEGAL_CMD
         ELSE IF msg[1] = INV_CMD \/ msg[1] = EOM_CMD THEN msg[1]
         ELSE ILLEGAL_CMD
    ELSE EOM_CMD

\* lines 87-93: the handlers by command
OppCommands ==
    (INV_CMD :> "inv_resp" @@ EOM_CMD :> "eom_resp"
     @@ GET_GEN2_CFG :> "get_gen2_cfg_resp"
     @@ READ_GEN2_INP_CMD :> "read_gen2_inp_resp"
     @@ GET_GET_VERS_CMD :> "vers_resp")

\* lines 122-127; eom_resp (lines 216-218) does nothing
CallHandler(st, cmd, msg) ==
    IF cmd \notin DOMAIN OppCommands
    THEN [st EXCEPT !.ev = Append(@, Warned("unknown serial command", msg))]
    ELSE IF cmd = READ_GEN2_INP_CMD
    THEN ReadGen2InpResp(
             [st EXCEPT !.ev = Append(@, Handled(OppCommands[cmd], msg))], msg)
    ELSE IF cmd = GET_GEN2_CFG
    THEN GetGen2CfgResp(
             [st EXCEPT !.ev = Append(@, Handled(OppCommands[cmd], msg))], msg)
    ELSE IF cmd = GET_GET_VERS_CMD
    THEN VersResp(
             [st EXCEPT !.ev = Append(@, Handled(OppCommands[cmd], msg))], msg)
    ELSE IF cmd = INV_CMD
    THEN InvResp(
             [st EXCEPT !.ev = Append(@, Handled(OppCommands[cmd], msg))], msg)
    ELSE [st EXCEPT !.ev = Append(@, Handled(OppCommands[cmd], msg))]

ProcessReceivedMessage(st, msg) == CallHandler(st, Command(msg), msg)

(***************************************************************************)
(* tick (lines 465-477).                                                   *)
(***************************************************************************)
\* lines 473-474; an exception a handler raises ends the loop and the tick
RECURSIVE DrainQueue(_)
DrainQueue(st) ==
    IF st.err # NoErr \/ st.o.receive_queue = << >> THEN st
    ELSE DrainQueue(ProcessReceivedMessage(
             [st EXCEPT !.o.receive_queue = Tail(@)],
             Head(st.o.receive_queue)))

\* lines 469-471
TickIncand(st) ==
    IF st.o.incand_reg /\ st.o.tickCnt % 10 = 5 THEN UpdateIncand(st) ELSE st

\* the poll of every fifth tick
PollInputsEveryFifth(st) ==
    IF st.err = NoErr /\ st.o.tickCnt % 5 = 0
    THEN Send(st, st.o.read_input_msg)
    ELSE st

\* lines 476-477
PollInputs(st) ==
    IF st.err = NoErr /\ st.o.tickCnt % 10 = 0
    THEN Send(st, st.o.read_input_msg)
    ELSE st

\* lines 465-477
PlatformTick(st) ==
    PollInputs(DrainQueue(TickIncand([st EXCEPT !.o.tickCnt = @ + 1])))

(***************************************************************************)
(* SerialCommunicator._receive_loop (lines 997-1051): one pass of the      *)
(* outer loop.                                                             *)
(***************************************************************************)
\* line 1014
IsGen2Addr(b) == BitAnd(b, 224) = 32

\* the loop of lines 1034-1039 without its break
FindSynchNoBreak(partMsg) == << >>

\* lines 1034-1039: bytes are dropped up to the next card address
RECURSIVE FindSynch(_)
FindSynch(partMsg) ==
    IF partMsg = << >> THEN partMsg
    ELSE IF IsGen2Addr(partMsg[1]) THEN partMsg
    ELSE FindSynch(Tail(partMsg))

Drop(partMsg, n) == SubSeq(partMsg, n + 1, Len(partMsg))

\* lines 1012-1039: the split into responses
RECURSIVE SplitResponses(_)
SplitResponses(o) ==
    IF Len(o.partMsg) < 7 THEN o
    ELSE IF IsGen2Addr(o.partMsg[1])
    THEN IF o.partMsg[2] = READ_GEN2_INP_CMD
         THEN SplitResponses(
                  [o EXCEPT !.receive_queue = Append(@, SubSeq(o.partMsg, 1, 7)),
                            !.partMsg = Drop(@, 7)])
         ELSE SplitResponses([o EXCEPT !.partMsg = FindSynch(Drop(@, 2))])
    ELSE IF o.partMsg[1] = EOM_CMD
    THEN SplitResponses([o EXCEPT !.partMsg = Drop(@, 1)])
    ELSE SplitResponses([o EXCEPT !.partMsg = FindSynch(Drop(@, 1))])

\* lines 1004-1007: read() returns the n bytes that have arrived
ReceiveLoop(o, n) ==
    SplitResponses([o EXCEPT !.partMsg = @ \o SubSeq(o.wire, 1, n),
                             !.wire = Drop(@, n)])

(***************************************************************************)
(* The platform's inputs and its state machine.                            *)
(***************************************************************************)
\* a response to the read of the inputs of the card at addr
InputResp(addr, data) ==
    <<addr, READ_GEN2_INP_CMD>> \o data
    \o <<CalcCrc8WholeMsg(<<addr, READ_GEN2_INP_CMD>> \o data)>>

\* the same with its last byte damaged on the line
Corrupted(frame) == [frame EXCEPT ![7] = (@ + 1) % 256]

InputStates == {<<0, 0, 0, 0>>, <<0, 0, 0, 5>>, <<128, 0, 1, 6>>}

Responses == {InputResp(a, d) : a \in {32, 33}, d \in InputStates}

\* what the line delivers piece by piece: responses, a damaged response, a
\* response of a card that was never configured, an end of message, a
\* response to another command and a stray byte
Pieces ==
    Responses
    \cup {Corrupted(InputResp(32, <<0, 0, 0, 5>>)),
          InputResp(34, <<0, 0, 0, 5>>), <<EOM_CMD>>,
          <<32, GET_GET_VERS_CMD>>, <<5>>}

MaxPieces == 2
MaxTicks == 3
MaxRead == 30

\* the bytes of the pieces, one after the other
RECURSIVE Concat(_)
Concat(pieces) ==
    IF pieces = << >> THEN << >> ELSE Head(pieces) \o Concat(Tail(pieces))

Streams(n) == {Concat(ps) : ps \in UNION {[1..k -> Pieces] : k \in 0..n}}

\* how many bytes a read returns: part of a response, a whole one, or all
\* that is left, up to the most a read asks for
ReadSizes == {3, 7, MaxRead}

\* the least of two
Min(a, b) == IF a < b THEN a ELSE b

\* the response of a board at addr to the configuration request: its four
\* wings
CfgResp(addr, wings) ==
    <<addr, GET_GEN2_CFG>> \o wings
    \o <<CalcCrc8WholeMsg(<<addr, GET_GEN2_CFG>> \o wings)>>

\* the platform after __init__ has connected to four boards and processed
\* their configuration: 0x20 with a solenoid wing (inputs 0-3), 0x21 with an
\* input wing (inputs 0-7), 0x22 with an incandescent wing, and 0x23 with
\* an incandescent wing in its second place and a solenoid wing in its third
HardwarePlatform(wire) ==
    [GetGen2CfgResp(
         Plat([NewPlatform EXCEPT !.opp_connection = TRUE]),
         CfgResp(32, <<OppRs232Intf.WING_SOL, 0, 0, 0>>)
         \o CfgResp(33, <<OppRs232Intf.WING_INP, 0, 0, 0>>)
         \o CfgResp(34, <<OppRs232Intf.WING_INCAND, 0, 0, 0>>)
         \o CfgResp(35, <<0, OppRs232Intf.WING_INCAND, OppRs232Intf.WING_SOL, 0>>)
         \o <<EOM_CMD>>).o
     EXCEPT !.wire = wire, !.pc = "done", !.serial = "open",
            !.serial_connection = TRUE, !.sending = "test",
            !.receiving = "test"]

OppInit ==
    /\ Constructed(PyNone, ShowInit(PyNone))
    /\ \E wire \in Streams(MaxPieces) : opp = HardwarePlatform(wire)

PlatformDid(name, n, st) ==
    /\ opp' = st.o
    /\ ev' = <<Ev("call", 0, <<name>>, n)>> \o st.ev
    /\ err' = st.err
    /\ UNCHANGED <<showData, template, loads, now, heap, show, players,
                   timers, hist>>

\* the receive thread reads what has arrived and splits it
SerialRead ==
    /\ opp.wire # << >>
    /\ \E n \in ReadSizes :
          /\ n = Min(n, Len(opp.wire)) \/ n = MaxRead
          /\ PlatformDid("_receive_loop", Min(n, Len(opp.wire)),
                         Plat(ReceiveLoop(opp, Min(n, Len(opp.wire)))))

\* the machine's clock calls tick()
OppTick ==
    /\ opp.tickCnt < MaxTicks
    /\ PlatformDid("tick", 0, PlatformTick(Plat(opp)))

OppNext ==
    \/ SerialRead
    \/ OppTick

OppSpec == OppInit /\ [][OppNext]_vars

(***************************************************************************)
(* The input responses (lines 329-363, 465-477, 1003-1040).                *)
(***************************************************************************)
\* where the record log of an operation holds the entry e, and where it
\* holds an entry of kind k
Entries(log, e) == {j \in 1..Len(log) : log[j] = e}
OfKind(log, k) == {j \in 1..Len(log) : log[j].k = k}

\* the response has the CRC of its first six bytes
CrcValid(msg) == msg[7] = CalcCrc8PartMsg(msg, 0, 6)

\* the bits in which two 32-bit states differ
Differing(old, new) == {i \in 0..31 : WordBit(old, i) # WordBit(new, i)}

\* the response is one of a registered card, with a valid CRC
FromCard(msg) == CrcValid(msg) /\ msg[1] \in DOMAIN opp.inpAddrDict

\* the operation is a tick that finds n responses in the queue
TickServes(n) == Len(opp.receive_queue) = n /\ Called("tick", 0)'

\* the card's stored state is old, and the operation emits for each bit in
\* which new differs one event of the card and the bit, active iff the new
\* bit is 0, emits no other event, and stores new
InputsDiffed(addr, old, new) ==
    /\ \A i \in Differing(old, new) :
          Cardinality(Entries(ev', Switched(addr - CARD_ID_GEN2_CARD, i,
                                            IF WordBit(new, i) = 0 THEN 1 ELSE 0)))
          = 1
    /\ Cardinality(OfKind(ev', "switch")) = Cardinality(Differing(old, new))
    /\ InpCard(opp', addr).oldState = new

C20_OnlyValidFrameDispatched ==
    [][(/\ TickServes(2)
        /\ ~CrcValid(opp.receive_queue[1])
        /\ FromCard(opp.receive_queue[2]))
       => /\ Cardinality(OfKind(ev', "handler")) = 1
          /\ Cardinality(Entries(ev', Handled("read_gen2_inp_resp",
                                              opp.receive_queue[2]))) = 1
          /\ opp'.badCRC = opp.badCRC + 1
          /\ InpCard(opp', opp.receive_queue[2][1]).oldState
             = SubSeq(opp.receive_queue[2], 3, 6)
          /\ \A a \in DOMAIN opp.inpAddrDict \ {opp.receive_queue[2][1]} :
                InpCard(opp', a) = InpCard(opp, a)]_vars

(***************************************************************************)
(* The split of the received bytes (lines 1007-1040).                      *)
(***************************************************************************)
\* the operation is a pass of the receive loop
Received == ev # << >> /\ ev[1].k = "call" /\ ev[1].s = <<"_receive_loop">>

\* the buffer the pass splits: what was left before, and what the read adds
Buffered == opp.partMsg \o SubSeq(opp.wire, 1, ev'[1].n)

\* a card-address byte, and a byte that is neither that nor the end of
\* message
CardAddr(b) == b \in 32..63
Stray(b) == ~CardAddr(b) /\ b # 255

\* where the first card-address byte of buf is; behind buf if it has none
AddrsIn(buf) == {i \in 1..Len(buf) : CardAddr(buf[i])}
FirstAddr(buf) ==
    IF AddrsIn(buf) = {} THEN Len(buf) + 1
    ELSE CHOOSE i \in AddrsIn(buf) : \A j \in AddrsIn(buf) : i <= j

\* the responses the pass has put on the queue
Enqueued ==
    SubSeq(opp'.receive_queue, Len(opp.receive_queue) + 1,
           Len(opp'.receive_queue))

\* the pass leaves a tail of buf, has discarded the bytes before the first
\* card address k and has cut no response from them: with no card address in
\* buf nothing is enqueued and the buffer is empty, and a whole response to
\* the read-input command at k is the first one enqueued
Resynchronized(buf, k) ==
    /\ Len(opp'.partMsg) <= Len(buf) - (k - 1)
    /\ opp'.partMsg
       = SubSeq(buf, Len(buf) - Len(opp'.partMsg) + 1, Len(buf))
    /\ k > Len(buf) => (Enqueued = << >> /\ opp'.partMsg = << >>)
    /\ (k + 6 <= Len(buf) /\ buf[k + 1] = 8)
       => (Enqueued # << >> /\ Enqueued[1] = SubSeq(buf, k, k + 6))

\* every response on the queue is 7 bytes, a card address first and the
\* read-input command second
WellFramed ==
    \A i \in 1..Len(opp.receive_queue) :
        /\ Len(opp.receive_queue[i]) = 7
        /\ CardAddr(opp.receive_queue[i][1])
        /\ opp.receive_queue[i][2] = 8

\* C21 as stated: whenever the buffer's leading byte is neither a card
\* address nor the end of message, bytes are discarded until the front is a
\* card address or the buffer is empty, no response is cut from the
\* discarded bytes, and every response enqueued is 7 bytes, a card address
\* and the read-input command first.
C21_ResyncOnStrayByte ==
    [][(Received' /\ Buffered # << >> /\ Stray(Buffered[1]))
       => (Resynchronized(Buffered, FirstAddr(Buffered)) /\ WellFramed')]_vars

\* C21: the same, for a buffer of at least 7 bytes; a shorter buffer is
\* left as it is until more bytes arrive.
C21_ResyncOnceSevenBuffered ==
    [][(Received' /\ Len(Buffered) >= 7 /\ Stray(Buffered[1]))
       => (Resynchronized(Buffered, FirstAddr(Buffered)) /\ WellFramed')]_vars

\* a read of 8 bytes, a stray byte and a response, has enqueued the response
\* and left nothing
C21_Witness ==
    /\ Received
    /\ ev[1].n = 8
    /\ Len(opp.receive_queue) = 1
    /\ opp.partMsg = << >>
    /\ opp.wire = << >>

(***************************************************************************)
(* The connection: HardwarePlatform._connect_to_hardware (lines 131-138),  *)
(* SerialCommunicator.__init__ (lines 815-835) and identify_connection     *)
(* (lines 837-895).  The hardware answers each write with one of a few     *)
(* responses; a step of the connection is an action.                       *)
(***************************************************************************)
\* line 856: the probes of the EOM handshake
ProbeLimit == 100

MaxPorts == 2

\* what read(30) returns after a probe
ProbeResps == {<< >>, <<5>>, <<EOM_CMD>>, <<EOM_CMD, EOM_CMD>>}

\* what the boards answer to the inventory command
InvResps == {<< >>, <<INV_CMD, 32, 33, EOM_CMD>>, <<INV_CMD, 32>>}

\* what the boards answer to the configuration request
CfgResps ==
    {<< >>,
     CfgResp(32, <<OppRs232Intf.WING_SOL, 0, 0, 0>>)
         \o CfgResp(33, <<OppRs232Intf.WING_INP, 0, 0, 0>>) \o <<EOM_CMD>>,
     CfgResp(32, <<OppRs232Intf.WING_INP, OppRs232Intf.WING_INCAND,
                   OppRs232Intf.WING_NEO, 0>>) \o <<EOM_CMD>>,
     CfgResp(33, <<OppRs232Intf.WING_INP, 0, 0, 0>>)
         \o Corrupted(CfgResp(34, <<OppRs232Intf.WING_INP, 0, 0, 0>>))
         \o <<EOM_CMD>>,
     Corrupted(CfgResp(32, <<OppRs232Intf.WING_SOL, 0, 0, 0>>)) \o <<EOM_CMD>>}

\* the response of a board at addr to the version request
VersFrame(addr, version) ==
    <<addr, GET_GET_VERS_CMD>> \o version
    \o <<CalcCrc8WholeMsg(<<addr, GET_GET_VERS_CMD>> \o version)>>

Versions == {<<0, 0, 0, 9>>, MIN_FW, <<0, 1, 0, 0>>, BAD_FW_VERSION}

VersFrames ==
    {VersFrame(32, v) : v \in Versions}
    \cup {Corrupted(VersFrame(32, <<0, 1, 0, 0>>))}

\* what the boards answer to the version request: nothing, or the frames of
\* one or two boards and the EOM
VersResps ==
    {<< >>} \cup {f \o <<EOM_CMD>> : f \in VersFrames}
    \cup {VersFrame(32, <<0, 1, 0, 0>>) \o VersFrame(33, MIN_FW) \o <<EOM_CMD>>,
          VersFrame(32, MIN_FW) \o VersFrame(33, <<0, 1, 0, 0>>) \o <<EOM_CMD>>,
          VersFrame(32, <<0, 1, 0, 0>>) \o VersFrame(33, <<0, 0, 0, 9>>)
              \o <<EOM_CMD>>,
          VersFrame(32, <<0, 1, 0, 0>>) \o VersFrame(33, BAD_FW_VERSION)
              \o <<EOM_CMD>>,
          Corrupted(VersFrame(32, <<0, 1, 0, 0>>))
              \o VersFrame(33, <<0, 0, 0, 9>>) \o <<EOM_CMD>>,
          VersFrame(32, <<0, 1, 0, 0>>) \o <<33, 5, 0, 0, 1, 0, 0, EOM_CMD>>}

\* what read(100) returns after the first poll of the inputs
FirstInputs ==
    {<< >>, InputResp(33, <<0, 0, 0, 0>>) \o <<EOM_CMD>>,
     InputResp(33, <<0, 0, 0, 5>>) \o <<EOM_CMD>>,
     Corrupted(InputResp(33, <<0, 0, 0, 5>>)) \o <<EOM_CMD>>}

\* a step of the connection has come to pc, or has raised
ConnDid(name, n, st, pc) ==
    PlatformDid(name, n,
                [st EXCEPT !.o.pc = IF st.err = NoErr THEN pc ELSE "failed"])

\* lines 131-138 and 815-833: the next port is opened
Connect ==
    /\ opp.pc \in {"none", "done"}
    /\ opp.ports > 0
    /\ ConnDid("SerialCommunicator", 0,
               Plat([opp EXCEPT !.ports = @ - 1, !.count = 0,
                                !.partMsg = << >>, !.serial = "open",
                                !.serial_connection = TRUE]),
               "probe")

\* read(30) has returned resp
ReadResp(resp) == [k |-> "read", name |-> "read", msg |-> resp]

\* lines 844-857 with a count limit that is never met
ProbeForever(resp) ==
    IF resp # << >> /\ resp[1] = EOM_CMD
    THEN ConnDid("probe", opp.count + 1,
                 [Plat([opp EXCEPT !.count = 0]) EXCEPT !.ev = <<ReadResp(resp)>>],
                 "inventory")
    ELSE ConnDid("probe", opp.count + 1,
                 [Plat([opp EXCEPT !.count = @ + 1])
                     EXCEPT !.ev = <<ReadResp(resp)>>],
                 "probe")

\* lines 844-857: one pass of the loop, the read returning resp.  count is
\* local to the handshake
Probe(resp) ==
    IF resp # << >> /\ resp[1] = EOM_CMD
    THEN ConnDid("probe", opp.count + 1,
                 [Plat([opp EXCEPT !.count = 0]) EXCEPT !.ev = <<ReadResp(resp)>>],
                 "inventory")
    ELSE IF opp.count + 1 = ProbeLimit
    THEN ConnDid("probe", opp.count + 1,
                 [Plat([opp EXCEPT !.count = @ + 1])
                     EXCEPT !.ev = <<ReadResp(resp)>>,
                            !.err = "AssertionError"],
                 "probe")
    ELSE ConnDid("probe", opp.count + 1,
                 [Plat([opp EXCEPT !.count = @ + 1])
                     EXCEPT !.ev = <<ReadResp(resp)>>],
                 "probe")

Handshake ==
    /\ opp.pc = "probe"
    /\ \E resp \in ProbeResps : Probe(resp)

\* lines 859-872
Inventory ==
    /\ opp.pc = "inventory"
    /\ \E resp \in InvResps :
          ConnDid("inventory", 0, ProcessReceivedMessage(Plat(opp), resp),
                  "config")

\* lines 874-882
Configuration ==
    /\ opp.pc = "config"
    /\ \E resp \in CfgResps :
          ConnDid("config", 0, ProcessReceivedMessage(Plat(opp), resp),
                  "version")

\* lines 891-895 after the version response
CheckMinVersion(st) ==
    IF st.err = NoErr /\ WordLess(st.o.minVersion, MIN_FW)
    THEN [st EXCEPT !.err = "AssertionError"]
    ELSE st

\* lines 884-895
FirmwareVersions ==
    /\ opp.pc = "version"
    /\ \E resp \in VersResps :
          ConnDid("version", 0,
                  CheckMinVersion(ProcessReceivedMessage(Plat(opp), resp)),
                  "inputs")

\* lines 897-902, and lines 834-835: the connection is registered and the
\* threads are started
FirstPoll ==
    /\ opp.pc = "inputs"
    /\ \E resp \in FirstInputs :
          ConnDid("inputs", 0,
                  ProcessReceivedMessage(
                      Plat([opp EXCEPT !.opp_connection = TRUE,
                                       !.sending = "test",
                                       !.receiving = "test"]), resp),
                  "done")

ConnInit ==
    /\ Constructed(PyNone, ShowInit(PyNone))
    /\ \E ports \in 0..MaxPorts : opp = [NewPlatform EXCEPT !.ports = ports]

ConnNext ==
    \/ Connect
    \/ Handshake
    \/ Inventory
    \/ Configuration
    \/ FirmwareVersions
    \/ FirstPoll

\* identify_connection runs on: its loop takes its next pass
ConnSpec == ConnInit /\ [][ConnNext]_vars /\ WF_vars(Handshake)

(***************************************************************************)
(* The cached poll message (lines 220-286).                                *)
(***************************************************************************)
\* one poll sub-frame for each card of opp_inputs from place i on, in the
\* order of the registry
RECURSIVE PollFrames(_, _)
PollFrames(opp_inputs, i) ==
    IF i > Len(opp_inputs) THEN << >>
    ELSE ReadInputCmd(opp_inputs[i].addr) \o PollFrames(opp_inputs, i + 1)

\* C22: after any sequence of configuration responses has been processed
\* (none of them raising), read_input_msg consists of exactly one poll
\* sub-frame for the address of every input card in opp_inputs, followed by
\* the end-of-message byte.
C22_PollMessageCoversInputs ==
    err = NoErr
    => opp.read_input_msg = PollFrames(opp.opp_inputs, 1) \o <<EOM_CMD>>

(***************************************************************************)
(* The firmware versions (lines 288-327, 884-895).                         *)
(***************************************************************************)
\* the step hands msg to vers_resp
VersionsOf(msg) ==
    /\ Len(ev') >= 2
    /\ ev'[1] = Ev("call", 0, <<"version">>, 0)
    /\ ev'[2] = Handled("vers_resp", msg)

\* where the sub-frames of a response start, and the starts the loop comes
\* to: those with no bad CRC, no EOM and no other command before them
FrameStarts(msg) == {c \in 0..Len(msg) : c % 7 = 0 /\ c + 7 <= Len(msg)}
CrcValidAt(msg, c) == msg[c + 7] = CalcCrc8PartMsg(msg, c, 6)
Processed(msg) ==
    {c \in FrameStarts(msg) :
        \A d \in FrameStarts(msg) :
            d < c => /\ CrcValidAt(msg, d)
                     /\ msg[d + 8] # EOM_CMD
                     /\ msg[d + 9] = GET_GET_VERS_CMD}

\* the versions of the CRC-valid sub-frames at the starts given
ValidVersions(msg, starts) ==
    {Version(msg, c) : c \in {d \in starts : CrcValidAt(msg, d)}}

\* the least of a set of 32-bit words
LeastWord(words) == CHOOSE m \in words : \A w \in words : ~WordLess(w, m)

\* the version step raises if a processed CRC-valid sub-frame carries the
\* sentinel; otherwise minVersion becomes the least of its value and the
\* versions given, and the connection fails iff that is below MIN_FW
VersionsChecked(msg, versions) ==
    IF BAD_FW_VERSION \in ValidVersions(msg, Processed(msg))
    THEN err' = "AssertionError" /\ opp'.pc = "failed"
    ELSE /\ opp'.minVersion = LeastWord(versions \cup {opp.minVersion})
         /\ WordLess(opp'.minVersion, MIN_FW)
            => (err' = "AssertionError" /\ opp'.pc = "failed")
         /\ ~WordLess(opp'.minVersion, MIN_FW)
            => (err' = NoErr /\ opp'.pc = "inputs")

Probed == opp.pc = "probe" /\ ev'[1] = Ev("call", 0, <<"probe">>, opp.count + 1)
ProbeNumber == ev'[1].n
Answered == ev'[2].msg # << >> /\ ev'[2].msg[1] = EOM_CMD

\* C28: the EOM handshake always terminates: it proceeds as soon as a read
\* returns a response starting with the end-of-message byte, and otherwise
\* raises an error after exactly 100 probes; it never sends more than 100
\* probes.
C28_HandshakeTerminates ==
    /\ (opp.pc = "probe") ~> (opp.pc # "probe")
    /\ [][Probed
          => /\ ProbeNumber <= ProbeLimit
             /\ Answered => (opp'.pc = "inventory" /\ err' = NoErr)
             /\ (~Answered /\ ProbeNumber < ProbeLimit)
                => (opp'.pc = "probe" /\ err' = NoErr)
             /\ (~Answered /\ ProbeNumber = ProbeLimit)
                => (opp'.pc = "failed" /\ err' = "AssertionError")]_vars

\* the hundredth probe has had no answer either, and the handshake has
\* raised
C28_Witness ==
    /\ ev # << >> /\ ev[1] = Ev("call", 0, <<"probe">>, ProbeLimit)
    /\ opp.count = ProbeLimit
    /\ opp.pc = "failed"
    /\ err = "AssertionError"


(***************************************************************************)
(* The platform in operation: the devices of the machine are configured    *)
(* (lines 401-463), the lights are switched (lines 592-607), the receive   *)
(* thread reads and the clock ticks (lines 465-477).                       *)
(***************************************************************************)
MaxDeviceTicks == 20
MaxSends == 1

\* the numbers and the configs of the devices of the machine
ConfigNumbers ==
    {<<0, 0>>, <<0, 3>>, <<0, 4>>, <<1, 7>>, <<1, 8>>, <<2, 0>>, <<2, 8>>,
     <<3, 8>>, <<3, 11>>, <<3, 12>>, <<3, 16>>, <<4, 0>>}
DriverConfigs ==
    {[pulse_ms |-> 10, hold_power16 |-> 0, hold_power |-> 0,
      allow_enable |-> FALSE, recycle |-> FALSE, recycle_factor |-> 0],
     [pulse_ms |-> 30, hold_power16 |-> 0, hold_power |-> 3,
      allow_enable |-> FALSE, recycle |-> TRUE, recycle_factor |-> 0]}

\* the lights the machine switches, one of each incandescent card
Lights == {<<2, 0>>, <<3, 8>>}

\* what the serial line delivers
DeviceStreams ==
    {<< >>,
     InputResp(33, <<0, 0, 0, 5>>) \o InputResp(32, <<0, 0, 0, 5>>),
     InputResp(34, <<0, 0, 0, 5>>)}

\* the call is for the device of this number
Numbered(number) ==
    [Plat(opp) EXCEPT !.ev = <<[k |-> "number", name |-> "number", msg |-> number]>>]

\* the devices are configured before the clock runs
ConfigureSwitchCall ==
    /\ opp.tickCnt = 0
    /\ \E number \in ConfigNumbers :
          PlatformDid("configure_switch", 0, ConfigureSwitch(Numbered(number), number))

ConfigureDriverCall ==
    /\ opp.tickCnt = 0
    /\ Len(opp.send_queue) < MaxSends
    /\ \E number \in ConfigNumbers, config \in DriverConfigs :
          PlatformDid("configure_driver", 0,
                      ConfigureDriver(Numbered(number), number, config))

ConfigureMatrixlightCall ==
    /\ opp.tickCnt = 0
    /\ \E number \in ConfigNumbers :
          PlatformDid("configure_matrixlight", 0,
                      ConfigureMatrixlight(Numbered(number), number))

\* a configured light is switched on, with a brightness, or off
LightOn ==
    /\ opp.incand_reg
    /\ \E number \in Lights, brightness \in {0, 255} :
          PlatformDid("on", brightness, IncandOn(Plat(opp), number, brightness))

LightOff ==
    /\ opp.incand_reg
    /\ \E number \in Lights : PlatformDid("off", 0, IncandOff(Plat(opp), number))

\* the machine's clock calls tick()
DeviceTick ==
    /\ opp.tickCnt < MaxDeviceTicks
    /\ PlatformDid("tick", 0, PlatformTick(Plat(opp)))

DeviceInit ==
    /\ Constructed(PyNone, ShowInit(PyNone))
    /\ \E wire \in DeviceStreams : opp = HardwarePlatform(wire)

DeviceNext ==
    \/ ConfigureSwitchCall
    \/ ConfigureDriverCall
    \/ ConfigureMatrixlightCall
    \/ SerialRead
    \/ DeviceTick

DeviceSpec == DeviceInit /\ [][DeviceNext]_vars

\* the lights of the machine: nothing arrives on the serial line
LightInit ==
    /\ Constructed(PyNone, ShowInit(PyNone))
    /\ opp = HardwarePlatform(<< >>)

LightNext ==
    \/ ConfigureMatrixlightCall
    \/ LightOn
    \/ LightOff
    \/ DeviceTick

LightSpec == LightInit /\ [][LightNext]_vars

(***************************************************************************)
(* The numbers of the devices (lines 401-463, 234-257).                    *)
(***************************************************************************)
\* the step is a call of the method name, and the number it is given
Configures(name) ==
    /\ ev'[1] = Ev("call", 0, <<name>>, 0)
    /\ ev'[2].k = "number"
NumberGiven == ev'[2].msg

\* a card of the list has the card number of the number and, in its mask,
\* the bit of the number's channel
InWordMask(cards, number) ==
    \E i \in 1..Len(cards) :
        /\ cards[i].addr - CARD_ID_GEN2_CARD = number[1]
        /\ number[2] \in 0..31
        /\ WordBit(cards[i].mask, number[2]) = 1
InSolenoidMask(cards, number) ==
    \E i \in 1..Len(cards) :
        /\ cards[i].addr - CARD_ID_GEN2_CARD = number[1]
        /\ number[2] \in 0..15
        /\ Bit(cards[i].mask, number[2]) = 1

\* the call raises and changes nothing of the platform
Refused == err' = "AssertionError" /\ opp' = opp

\* C24: configure_switch, configure_driver and configure_matrixlight succeed
\* only for a number whose channel bit is set in the matching mask (input,
\* solenoid, incandescent) of a card built from a configuration response,
\* and for such a number they do succeed; for any other number they raise
\* an error and leave the registries and incand_reg unchanged.
C24_ConfigureChecksMask ==
    [][/\ Configures("configure_switch")
          => IF InWordMask(opp.opp_inputs, NumberGiven)
             THEN err' = NoErr /\ opp' = opp
             ELSE Refused
       /\ Configures("configure_driver")
          => IF InSolenoidMask(opp.opp_solenoid, NumberGiven)
             THEN /\ err' = NoErr
                  /\ DOMAIN opp'.solDict = DOMAIN opp.solDict
                  /\ opp'.incand_reg = opp.incand_reg
             ELSE Refused
       /\ Configures("configure_matrixlight")
          => IF InWordMask(opp.opp_incands, NumberGiven)
             THEN err' = NoErr /\ opp'.incand_reg
             ELSE Refused]_vars

\* a matrix light of channel 16 of board 3, whose incandescent wing has the
\* channels 8 to 15, has been refused
C24_Witness ==
    /\ Len(ev) = 2
    /\ ev[1] = Ev("call", 0, <<"configure_matrixlight">>, 0)
    /\ ev[2].msg = <<3, 16>>
    /\ err = "AssertionError"
    /\ ~opp.incand_reg

(***************************************************************************)
(* The tick (lines 465-477).                                               *)
(***************************************************************************)
\* the responses the handlers of the last operation were called with, in
\* the order of the calls
IsHandler(e) == e.k = "handler"
Dispatched(log) ==
    [i \in 1..Len(SelectSeq(log, IsHandler)) |-> SelectSeq(log, IsHandler)[i].msg]

\* the step is a tick that returns
Ticks == ev'[1] = Ev("call", 0, <<"tick">>, 0) /\ err' = NoErr

UpdatesIncands ==
    /\ ev'[1] = Ev("call", 0, <<"tick">>, 0)
    /\ opp.incand_reg
    /\ opp'.tickCnt % 10 = 5

\* the places of the cards whose newState differs from their oldState, and
\* the number of such cards before place i
Pending == {i \in 1..Len(opp.opp_incands) :
               opp.opp_incands[i].newState # opp.opp_incands[i].oldState}
Rank(i) == Cardinality({j \in Pending : j < i})

\* msg holds at the place of its rank the sub-frame of card i: address,
\* command, the four bytes of newState and the CRC of these
HoldsSubFrame(msg, i) ==
    /\ SubSeq(msg, 8 * Rank(i) + 1, 8 * Rank(i) + 7)
       = <<opp.opp_incands[i].addr, OppRs232Intf.INCAND_CMD,
           OppRs232Intf.INCAND_SET_ON_OFF>> \o opp.opp_incands[i].newState
    /\ msg[8 * Rank(i) + 8] = CalcCrc8PartMsg(msg, 8 * Rank(i), 7)

\* C26: update_incand sends the pending changes as a single command with
\* one sub-frame for each card whose newState differs from its oldState,
\* ended by one end-of-message byte; it sends nothing when no card differs
\* (also when a light was toggled and toggled back); afterwards every card
\* has oldState = newState.
C26_IncandBatch ==
    [][UpdatesIncands
       => /\ IF Pending = {}
             THEN OfKind(ev', "send") = {} /\ opp'.send_queue = opp.send_queue
             ELSE /\ Cardinality(OfKind(ev', "send")) = 1
                  /\ \A j \in OfKind(ev', "send") :
                        /\ Len(ev'[j].msg) = 8 * Cardinality(Pending) + 1
                        /\ ev'[j].msg[Len(ev'[j].msg)] = EOM_CMD
                        /\ \A i \in Pending : HoldsSubFrame(ev'[j].msg, i)
                        /\ opp'.send_queue = Append(opp.send_queue, ev'[j].msg)
          /\ \A i \in 1..Len(opp.opp_incands) :
                /\ opp'.opp_incands[i].newState = opp.opp_incands[i].newState
                /\ opp'.opp_incands[i].oldState = opp.opp_incands[i].newState]_vars

\* one command has gone out with the sub-frames of both cards, a light of
\* each being on
C26_Witness ==
    /\ ev # << >> /\ ev[1] = Ev("call", 0, <<"tick">>, 0)
    /\ opp.tickCnt % 10 = 5
    /\ \E j \in OfKind(ev, "send") : Len(ev[j].msg) = 17
    /\ opp.opp_incands[1].oldState = <<0, 0, 0, 1>>
    /\ opp.opp_incands[2].oldState = <<0, 0, 1, 0>>


(***************************************************************************)
(* The threads of the communicator: stop (lines 962-966), send (lines      *)
(* 968-976), _sending_loop (lines 978-995) and _receive_loop (lines        *)
(* 997-1051).  A step is what a thread does between two looks at what the  *)
(* threads share.                                                          *)
(***************************************************************************)
MaxSendCalls == 2

\* what the serial line delivers
CommStreams ==
    {<< >>, InputResp(33, <<0, 0, 0, 5>>),
     InputResp(33, <<0, 0, 0, 5>>) \o InputResp(32, <<0, 0, 0, 5>>)}

\* the loop has written msg, or has tried to, the port being in this state
Written(serial, msg) == [k |-> "write", name |-> serial, msg |-> msg]

\* lines 989-995 and 1043-1050: the exception ends the loop and is put on
\* the crash queue
Crashed(o, loop) == [o EXCEPT !.crash_queue = Append(@, loop)]

\* send(msg) of the platform: the poll, as tick sends it
SendCall ==
    /\ opp.sends < MaxSendCalls
    /\ PlatformDid("send", 0,
                   Send(Plat([opp EXCEPT !.sends = @ + 1]), opp.read_input_msg))

\* line 965
StopCloses ==
    /\ opp.stopping = "none"
    /\ PlatformDid("stop", 0,
                   Plat([opp EXCEPT !.serial = "closed", !.stopping = "closed"]))

\* line 966
StopForgets ==
    /\ opp.stopping = "closed"
    /\ PlatformDid("stop", 1,
                   Plat([opp EXCEPT !.serial_connection = FALSE,
                                    !.stopping = "stopped"]))

\* line 983: while self.serial_connection
SendingTests ==
    /\ opp.sending = "test"
    /\ PlatformDid("_sending_loop", 0,
                   Plat([opp EXCEPT !.sending =
                             IF opp.serial_connection THEN "get" ELSE "done"]))

\* line 984: get() waits for a message
SendingGets ==
    /\ opp.sending = "get"
    /\ opp.send_queue # << >>
    /\ PlatformDid("_sending_loop", 1,
                   Plat([opp EXCEPT !.msg = Head(opp.send_queue),
                                    !.send_queue = Tail(@),
                                    !.sending = "write"]))

\* line 985: serial_connection.write(msg).  None has no write; the write of
\* a closed port raises
SendingWrites(o) ==
    IF ~o.serial_connection
    THEN [Plat(Crashed([o EXCEPT !.msg = << >>, !.sending = "done"],
                       "_sending_loop"))
             EXCEPT !.err = "AttributeError"]
    ELSE IF o.serial = "closed"
    THEN [Plat(Crashed([o EXCEPT !.msg = << >>, !.sending = "done"],
                       "_sending_loop"))
             EXCEPT !.ev = <<Written(o.serial, o.msg)>>,
                    !.err = "SerialException"]
    ELSE [Plat([o EXCEPT !.msg = << >>, !.sending = "test"])
             EXCEPT !.ev = <<Written(o.serial, o.msg)>>]

SendingWrite ==
    /\ opp.sending = "write"
    /\ PlatformDid("_sending_loop", 2, SendingWrites(opp))

\* line 1003: while self.serial_connection
ReceivingTests ==
    /\ opp.receiving = "test"
    /\ PlatformDid("_receive_loop", 0,
                   Plat([opp EXCEPT !.receiving =
                             IF opp.serial_connection THEN "read" ELSE "done"]))

\* lines 1004-1039: read(30), which waits for bytes, and the split
ReceivingReads ==
    /\ opp.receiving = "read"
    /\ opp.serial_connection /\ opp.serial = "open"
    /\ opp.wire # << >>
    /\ \E n \in ReadSizes :
          /\ n = Min(n, Len(opp.wire)) \/ n = MaxRead
          /\ PlatformDid("_receive_loop", Min(n, Len(opp.wire)),
                         Plat([ReceiveLoop(opp, Min(n, Len(opp.wire)))
                                  EXCEPT !.receiving = "test"]))

\* line 1004 after stop(): None has no read, and the read of a closed port
\* raises, or, when the loop was waiting in it, may never come back
ReceivingFails ==
    /\ opp.receiving = "read"
    /\ ~opp.serial_connection \/ opp.serial = "closed"
    /\ \/ PlatformDid("_receive_loop", 0,
                      [Plat(Crashed([opp EXCEPT !.receiving = "done"],
                                    "_receive_loop"))
                          EXCEPT !.err = IF opp.serial_connection
                                         THEN "SerialException"
                                         ELSE "AttributeError"])
       \/ /\ opp.serial_connection
          /\ PlatformDid("_receive_loop", 0,
                         Plat([opp EXCEPT !.receiving = "blocked"]))

CommInit ==
    /\ Constructed(PyNone, ShowInit(PyNone))
    /\ \E wire \in CommStreams : opp = HardwarePlatform(wire)

Sending == SendingTests \/ SendingGets \/ SendingWrite
Receiving == ReceivingTests \/ ReceivingReads \/ ReceivingFails

CommNext ==
    \/ SendCall
    \/ StopCloses
    \/ StopForgets
    \/ SendingTests
    \/ SendingGets
    \/ SendingWrite
    \/ ReceivingTests
    \/ ReceivingReads
    \/ ReceivingFails

\* the threads run on, and stop() returns
CommSpec ==
    /\ CommInit /\ [][CommNext]_vars
    /\ WF_vars(Sending) /\ WF_vars(Receiving) /\ WF_vars(StopForgets)

(***************************************************************************)
(* The teardown (lines 962-1051).                                          *)
(***************************************************************************)
\* the last step has called the write of the closed port
WroteAfterClose == \E i \in 1..Len(ev) : ev[i].k = "write" /\ ev[i].name = "closed"

\* C27: after stop() has closed the transport, both the sending loop and
\* the receiving loop eventually terminate, and no write to the transport
\* is attempted after the close, under every interleaving of stop(), send()
\* and the two loops.
C27_LoopsEndAfterStop ==
    /\ (opp.serial = "closed")
          ~> (opp.sending = "done" /\ opp.receiving = "done")
    /\ [](~WroteAfterClose)


(***************************************************************************)
(* The first step of a new instance, and the timer a step leaves.           *)
(***************************************************************************)
\* how often the last operation, once done, has called schedule_once for
\* instance p, and the delays it gave
Scheduled(p) == {i \in 1..Len(ev') : ev'[i].k = "schedule" /\ ev'[i].p = p}
Delays(p) == {ev'[i].n : i \in Scheduled(p)}

\* the operation made instance p with the sync interval of ms milliseconds
CreatedWith(p, ms) ==
    \E i \in 1..Len(ev') : ev'[i] = Ev("created", p, << >>, ms)

\* the constructor leaves one timer: its delay d is in (0, interval], now + d
\* is a multiple of the interval, and no step has run
WaitsForBoundary(p, interval) ==
    /\ Cardinality(Scheduled(p)) = 1
    /\ \A d \in Delays(p) :
          /\ 0 < d
          /\ d <= interval
          /\ (now + d) % interval = 0
          /\ timers'[p] = <<now + d>>
    /\ \A i \in 1..Len(ev') : ev'[i].k = "step" => ev'[i].p # p

\* the constructor has run a step of instance p
RunsInConstructor(p) == \E i \in 1..Len(ev') : ev'[i].k = "step" /\ ev'[i].p = p

SyncIntervals == {a.sync_ms : a \in PlayArgs} \ {0}

\* C29: a player made with a non-zero sync interval at clock time t gets its
\* first step scheduled with a delay d, 0 < d <= interval, with t + d a
\* multiple of the interval (a start on a boundary waits a whole interval);
\* with sync interval 0 the first step runs inside the constructor.
C29_FirstStepOnSyncBoundary ==
    [][\A p \in 1..Len(players') :
          /\ \A ms \in SyncIntervals :
                CreatedWith(p, ms) => WaitsForBoundary(p, ms \div 1000)
          /\ (CreatedWith(p, 0) /\ err' = NoErr) => RunsInConstructor(p)]_vars

\* a player was made on a boundary of its sync interval, after the clock's
\* start, and waits a whole interval
C29_Witness ==
    /\ Called("play", 0)
    /\ now = 2
    /\ \E p \in Instances :
          /\ ev[Len(ev)] = Ev("schedule", p, << >>, 2)
          /\ \E i \in 1..Len(ev) : ev[i] = Ev("created", p, << >>, 2000)
          /\ timers[p] = <<4>>
          /\ players[p].next_step_time = 4

\* the step at Python index i of instance p, once the operation is done
StepUnderCursor(p, i) ==
    Deref(heap', players'[p].show_steps).v[IF i < 0 THEN players'[p].total_steps + i + 1
                                          ELSE i + 1]

\* the last operation, once done, has run a step of instance p to its end
\* without ending the show and without a handler stopping the player
StepLeftRunning(p) ==
    /\ err' = NoErr
    /\ RunsInConstructor(p)
    /\ ~(RanLastStep(p)' /\ Numbers("loops", p)' = {0})
    /\ ~HandlerStopped(p)'

\* next_step_time of instance p when its step began: the constructor has
\* set it to the clock's time
StepBeganWith(p) ==
    IF p \in Instances THEN players[p].next_step_time ELSE now

\* C30: after a step that does not stop the player, without manual_advance
\* exactly one timer is scheduled, its delay is the relative time of the step
\* now under the cursor divided by speed, and next_step_time is now plus
\* that delay; with manual_advance no timer is scheduled and next_step_time
\* is unchanged.
C30_StepSchedulesNext ==
    [][\A p \in 1..Len(players') :
          StepLeftRunning(p)
          => IF players'[p].manual_advance
             THEN /\ Scheduled(p) = {}
                  /\ players'[p].next_step_time = StepBeganWith(p)
             ELSE /\ Cardinality(Scheduled(p)) = 1
                  /\ \A d \in Delays(p) :
                        /\ d * players'[p].speed[1]
                           = At(StepUnderCursor(p, players'[p].next_step_index),
                                TimeKey).v * players'[p].speed[2]
                        /\ players'[p].next_step_time = now + d
                        /\ now + d \in {timers'[p][i] : i \in 1..Len(timers'[p])}]_vars

\* a timer ran a step of a player at half speed and left a timer for the
\* next step, one second long, two seconds on
C30_Witness ==
    \E p \in Instances :
        /\ Called("timer", p)
        /\ Did("step", p)
        /\ players[p].speed = <<1, 2>>
        /\ ~players[p].stopped
        /\ ev[Len(ev)] = Ev("schedule", p, << >>, 2)
        /\ players[p].next_step_time = now + 2
        /\ timers[p] = <<now + 2>>

(***************************************************************************)
(* The order of what the first stop() does.                                 *)
(***************************************************************************)
\* the places of the log at which the operation did k for instance p
Places(k, p) == {i \in 1..Len(ev) : ev[i].k = k /\ ev[i].p = p}

\* the hold that counts for the stop() logged at place i: the argument when
\* one was given, the instance's own flag otherwise
HoldInForce(p, i) ==
    IF ev[i].s = <<"None">> THEN players[p].hold ELSE ev[i].s = <<"True">>

\* from place i on the log holds one clear(caller, priority) for every
\* registered output handler, in the handlers' order
ClearsAllFrom(p, i) ==
    /\ Len(ev) >= i + Len(ShowPlayerList) - 1
    /\ \A j \in 1..Len(ShowPlayerList) :
          ev[i + j - 1] = Ev("clear", p, ShowPlayerList[j], players[p].priority)
    /\ Places("clear", p) = i..(i + Len(ShowPlayerList) - 1)

\* the stop() of instance p logged at place i went in the order: removal,
\* unschedule, then the clears unless held, then the callback
StopInOrder(p, i) ==
    /\ Places("remove", p) = {i}
    /\ i < Len(ev)
    /\ ev[i + 1] = Ev("unschedule", p, << >>, 0)
    /\ p \notin show.running
    /\ IF HoldInForce(p, i) THEN Places("clear", p) = {}
       ELSE ClearsAllFrom(p, i + 2)
    /\ Cardinality(Places("callback", p)) = IF players[p].callback THEN 1 ELSE 0
    /\ \A c \in Places("callback", p) :
          /\ c = i + 2 + (IF HoldInForce(p, i) THEN 0 ELSE Len(ShowPlayerList))
          /\ \A j \in Places("clear", p) \cup Places("remove", p) : j < c

\* C31: the first stop() removes the instance from show.running and
\* unschedules its timer first, then calls every registered output handler's
\* clear(caller, priority) iff the effective hold is false (the hold argument
\* when given, the stored flag otherwise), and fires the callback last.
C31_StopOrder ==
    \A p \in Instances : \A i \in Places("remove", p) : StopInOrder(p, i)

\* stop(hold=False) on a player that was played with hold and a callback
C31_Witness ==
    \E p \in Instances :
        /\ Called("stop", p)
        /\ players[p].hold
        /\ players[p].callback
        /\ Len(ev) = 4 + Len(ShowPlayerList)
        /\ ev[2] = Ev("remove", p, <<"False">>, 0)
        /\ ev[Len(ev)] = Ev("callback", p, << >>, 0)

(***************************************************************************)
(* Show data whose root is one map.                                         *)
(***************************************************************************)
\* the sections of a step: its items other than the time
Sections(step) == {step.v[i] : i \in {j \in 1..Len(step.v) : step.v[j][1] # TimeKey}}

\* C33: loading data whose root is a single map treats it as a one-step
\* list: the show has that map as its only source step (total_steps is 1),
\* with its sections validated like those of any other step.
C33_MapRootIsOneStep ==
    (Called("do_load_show", 0) /\ showData.k = "dict")
    => /\ err = NoErr
       /\ show.total_steps = 1
       /\ Len(template.v) = 1
       /\ {s[1] : s \in Sections(template.v[1])} = {s[1] : s \in Sections(showData)}

(***************************************************************************)
(* _run_next_step entered before next_step_time.                            *)
(***************************************************************************)
\* the operation that follows enters _run_next_step of instance p, and the
\* clock is earlier than next_step_time (which no caller changes first)
EntersEarly(p) ==
    /\ now < players[p].next_step_time
    /\ \/ Called("timer", p)'
       \/ Called("resume", p)'
       \/ Called("advance", p)' /\ ~AdvancedToNegative(p)'

\* what only the step logic does: a step, an output handler, a timer, a stop
StepLogicDid(p) ==
    {i \in 1..Len(ev') :
        /\ ev'[i].p = p
        /\ ev'[i].k \in {"step", "loops", "play", "schedule", "remove", "clear",
                        "callback"}}

\* the timers of p afterwards are the ones its caller left: all of them for
\* resume(), all but the one that fired for the clock, none for advance()
TimersAsEntered(p) ==
    IF Called("resume", p)' THEN timers'[p] = timers[p]
    ELSE IF Called("advance", p)' THEN timers'[p] = << >>
    ELSE \E i \in 1..Len(timers[p]) :
            /\ timers[p][i] <= now
            /\ timers'[p] = SubSeq(timers[p], 1, i - 1)
                            \o SubSeq(timers[p], i + 1, Len(timers[p]))

\* C34: a premature run of the step logic is a no-op: entered while the
\* clock is earlier than next_step_time, _run_next_step calls no output
\* handler and leaves cursor, loop count, next_step_time and the pending
\* timers as they were when it was entered.
C34_PrematureRunIsNoOp ==
    [][\A p \in Instances :
          EntersEarly(p)
          => /\ StepLogicDid(p) = {}
             /\ err' = NoErr
             /\ players'[p].loops = players[p].loops
             /\ players'[p].next_step_time = players[p].next_step_time
             /\ players'[p].stopped = players[p].stopped
             /\ Called("advance", p)' \/ players'[p] = players[p]
             /\ TimersAsEntered(p)
             /\ UNCHANGED <<heap, show, hist>>]_vars

\* the clock ran a timer of a running player before its next_step_time:
\* nothing but the call is logged and another timer stays pending
C34_Witness ==
    \E p \in Instances :
        /\ ev = <<Ev("call", p, <<"timer">>, 0)>>
        /\ now < players[p].next_step_time
        /\ timers[p] # << >>
        /\ ~players[p].stopped

(***************************************************************************)
(* The range of the cursor.                                                 *)
(***************************************************************************)
InShow(me) == 0 <= me.next_step_index /\ me.next_step_index < me.total_steps

\* the start steps and the advance() arguments that name a step of a show
\* of total steps
StartSteps(total) == (1..total) \cup {-s : s \in 1..total}
NamesStep(p) ==
    /\ \A n \in Numbers("steps", p)' : n >= 1
    /\ \A k \in Numbers("show_step", p)' :
          k = NoStep \/ (1 <= k /\ k <= players[p].total_steps)

\* the operation that follows is a timer fire, pause(), resume(), or an
\* advance() whose arguments name a step
KeepsToShow(p) ==
    \/ Called("timer", p)'
    \/ Called("pause", p)'
    \/ Called("resume", p)'
    \/ Called("advance", p)' /\ NamesStep(p)

\* C35: for a running player created with start_step in 1..total_steps or
\* -total_steps..-1 the cursor stays within 0..total_steps-1 through timer
\* fires, pause(), resume(), advance(steps=N) with N >= 1 and
\* advance(show_step=k) with 1 <= k <= total_steps, and no step lookup goes
\* out of range.
C35_CursorStaysInShow ==
    /\ \A total \in 1..MaxSteps : \A s \in StartSteps(total) :
          0 <= StartIndex(s, total) /\ StartIndex(s, total) < total
    /\ [][\A p \in Instances :
             (InShow(players[p]) /\ ~players[p].stopped /\ KeepsToShow(p))
             => (InShow(players'[p]) /\ err' # "IndexError")]_vars

(***************************************************************************)
(* Shows with tokens: the index the walk builds, substitution at play(),   *)
(* and a second load of the same data.                                      *)
(***************************************************************************)
\* one step whose setting is a list of scalars, the first of them a token
ListShow ==
    L(<< D(<< <<S("leds"),
                D(<< <<S("l1"),
                       D(<< <<S("color"),
                              L(<<Tok("token1"), S("red")>>)>> >>)>> >>)>> >>) >>)

\* one step whose setting is a list directly inside a list
NestedShow ==
    L(<< D(<< <<S("leds"),
                D(<< <<S("l1"),
                       D(<< <<S("color"),
                              L(<< L(<<Tok("token1")>>) >>)>> >>)>> >>)>> >>) >>)

TokenData == {TokenShow, ListShow, NestedShow}

TokenInit ==
    /\ \E data \in TokenData : Constructed(data, ShowInit(data))
    /\ opp = NoPlatform

\* show.do_load_show(data) again, with the data the Show was made from
Reload ==
    /\ loads < MaxLoads
    /\ Loaded("do_load_show", showData, DoLoadShow(heap, show, showData))

TokenNext ==
    \/ PlayShow
    \/ Reload

TokenSpec == TokenInit /\ [][TokenNext]_vars

\* what a path addresses in a tree of dicts and lists; Missing when it
\* addresses nothing
Missing == [k |-> "missing", v |-> 0]
RECURSIVE Resolve(_, _)
Resolve(tree, path) ==
    IF path = << >> THEN tree
    ELSE IF tree.k = "dict"
    THEN IF HasKey(tree, Head(path))
         THEN Resolve(At(tree, Head(path)), Tail(path))
         ELSE Missing
    ELSE IF tree.k = "list"
    THEN IF IsInt(Head(path)) /\ 0 <= Head(path).v /\ Head(path).v < Len(tree.v)
         THEN Resolve(tree.v[Head(path).v + 1], Tail(path))
         ELSE Missing
    ELSE Missing

\* the scalars of a tree, each with the path that addresses it: a dict's
\* value under its key, a list's element under its 0-based index
RECURSIVE Scalars(_, _)
Scalars(tree, path) ==
    IF tree.k = "dict"
    THEN UNION {Scalars(tree.v[i][2], Append(path, tree.v[i][1])) :
                   i \in 1..Len(tree.v)}
    ELSE IF tree.k = "list"
    THEN UNION {Scalars(tree.v[i], Append(path, Num(i - 1))) :
                   i \in 1..Len(tree.v)}
    ELSE {<<path, tree>>}

\* the token a scalar bears
TokenOf(x) == IF IsStr(x) THEN TokenFinder(x.v) ELSE NoToken

\* the locations an index holds, as pairs <<token, path>>
Locations(index) ==
    UNION {{<<t, index[t][i]>> : i \in 1..Len(index[t])} : t \in DOMAIN index}

\* the value-locations the steps call for
TokenScalars ==
    {<<TokenOf(m[2]), m[1]>> :
        m \in {n \in Scalars(template, << >>) : TokenOf(n[2]) # NoToken}}

\* C32: the token walk records, for every token-bearing scalar, a
\* value-location whose path addresses exactly that scalar in the step tree
\* (a sequence element under its own 0-based index, also in a sequence
\* directly inside a sequence), and a scalar sequence element is recorded
\* as a value-location only: no key-location addresses a sequence.
C32_WalkRecordsLocations ==
    show.show_steps # PyNone
    => /\ Locations(show.token_values) = TokenScalars
       /\ \A loc \in Locations(show.token_keys) :
             Resolve(template, loc[2]).k = "dict"

\* the last operation was a play() of a loaded show whose bindings are all
\* names the show declares
PlayedDeclared ==
    /\ Called("play", 0)
    /\ show.loaded
    /\ show.total_steps # NoSteps
    /\ \A i \in 1..Len(ev) : ev[i].k = "binding" => ev[i].s \in show.tokens

\* C36: for a successfully loaded show and bindings that are a subset of its
\* declared tokens, token substitution at play() completes without error:
\* the constructor gets past it and the instance is made.
C36_SubstitutionCompletes ==
    PlayedDeclared => \E p \in Instances : Did("created", p)

\* C37: loading the same show data again into one Show yields the same
\* show_steps, total_steps, tokens, token_keys and token_values as loading
\* it once.
C37_ReloadKeepsTokenIndex ==
    [][(Called("do_load_show", 0)' /\ showData' = showData /\ show.loaded)
       => /\ err' = NoErr
          /\ template' = template
          /\ show'.total_steps = show.total_steps
          /\ show'.tokens = show.tokens
          /\ show'.token_keys = show.token_keys
          /\ show'.token_values = show.token_values]_vars

(***************************************************************************)
(* The inputs the platform reports.                                         *)
(***************************************************************************)
\* the input card with the number cardNum
CardsNumbered(cardNum) ==
    {i \in 1..Len(opp.opp_inputs) : opp.opp_inputs[i].cardNum = cardNum}

\* C38: switch events are emitted only for channels that exist on the card:
\* for every event of read_gen2_inp_resp the channel's bit is set in the
\* mask of that input card, so the event's number is a key of inpDict.
C38_EventsOnlyForMaskedInputs ==
    \A j \in OfKind(ev, "switch") :
        /\ ev[j].num \in DOMAIN opp.inpDict
        /\ \A i \in CardsNumbered(ev[j].num[1]) :
              WordBit(opp.opp_inputs[i].mask, ev[j].num[2]) # 0

\* the cards of opp_inputs that hold the input number = <<cardNum, index>>
HwCards(o, number) ==
    {i \in 1..Len(o.opp_inputs) :
        /\ o.opp_inputs[i].cardNum = number[1]
        /\ WordBit(o.opp_inputs[i].mask, number[2]) # 0}

\* get_hw_switch_states (lines 191-202): the loop runs over opp_inputs in
\* order, so the last card that holds a number decides its entry
GetHwSwitchStates(o) ==
    [number \in UNION {InputNumbers(o.opp_inputs[i].addr, o.opp_inputs[i].mask) :
                          i \in 1..Len(o.opp_inputs)} |->
        IF WordBit(o.opp_inputs[CHOOSE i \in HwCards(o, number) :
                                   \A j \in HwCards(o, number) : j <= i].oldState,
                   number[2]) = 0
        THEN 1 ELSE 0]

\* the events the operation, once done, has emitted for the number, and the
\* CRC-valid input frames it has handled for the card of the number
EventsFor(number) ==
    {j \in OfKind(ev', "switch") : ev'[j].num = number}
FramesFor(number) ==
    {j \in OfKind(ev', "handler") :
        /\ ev'[j].name = "read_gen2_inp_resp"
        /\ CrcValid(ev'[j].msg)
        /\ ev'[j].msg[1] - CARD_ID_GEN2_CARD = number[1]}

\* C39: after any sequence of configuration responses and input frames, for
\* every number in inpDict get_hw_switch_states reports the state of the
\* most recent event emitted for the number, and 1 iff the bit of the last
\* CRC-valid frame of the card is 0: an operation that emits an event for
\* the number or handles a valid frame of its card leaves that report, and
\* any other operation (a frame with a bad CRC among them) leaves the
\* report as it was.
C39_ReportedStateIsLastEvent ==
    [][\A number \in DOMAIN opp'.inpDict :
          /\ \A j \in EventsFor(number) :
                (\A i \in EventsFor(number) : i <= j)
                => GetHwSwitchStates(opp')[number] = ev'[j].state
          /\ \A j \in FramesFor(number) :
                (\A i \in FramesFor(number) : i <= j)
                => (GetHwSwitchStates(opp')[number] = 1
                    <=> WordBit(SubSeq(ev'[j].msg, 3, 6), number[2]) = 0)
          /\ (/\ EventsFor(number) = {}
              /\ FramesFor(number) = {}
              /\ number \in DOMAIN opp.inpDict)
             => GetHwSwitchStates(opp')[number] = GetHwSwitchStates(opp)[number]]_vars

\* C40: an orderly teardown is never reported as a fault: under every
\* interleaving of stop() with send() and with the sending and receiving
\* loops nothing is put on the machine's crash queue.
C40_TeardownNotReported == opp.crash_queue = << >>
====
